---- MODULE Spec2Model ----
(***************************************************************************)
(* Model of the hardware-facing core of the cryptos kernel:                *)
(*   - the round-robin preemption handler task_sched                       *)
(*     (src/arch/x86_64/interrupts.rs),                                    *)
(*   - the interrupt descriptor table manager init / irqalloc /            *)
(*     register_handler (src/arch/x86_64/interrupts.rs),                   *)
(*   - the AHCI port command-slot machinery (src/drivers/ahci/mod.rs).     *)
(* Each subsystem has its own specification (SchedSpec, IdtSpec,           *)
(* AhciSpec); the variables of the other subsystems stay unchanged.        *)
(***************************************************************************)
EXTENDS Integers, Sequences, FiniteSets, TLC

VARIABLES
    \* ---- preemption driver ----
    PTABLE,           \* process table: key -> state of the schedulable unit
    PTABLE_IDX,       \* the global current index (AtomicUsize)
    ACTIVE_LAPIC_ID,  \* the active local-APIC id (AtomicU32)
    lapic_ids,        \* what get_lapic_ids() yields (fixed by the platform)
    overflow_checks,  \* build profile: TRUE = arithmetic overflow panics
    cpu,              \* "running", "panicked" (halted) or "spinning" (never returns)
    invocations,      \* number of task_sched invocations started
    eoi_count,        \* number of end-of-interrupt signals sent by task_sched
    tick,             \* what the last task_sched invocation did
    fault,            \* what the last architectural exception handler did
    \* ---- IDT manager ----
    IDT,              \* vector -> handler name, or Missing
    IDT_CLONE,        \* the lazily initialised snapshot inside init()
    idtr,             \* the table the CPU has loaded (lidt)
    allocs,           \* vectors returned by irqalloc() and not registered since
    last_op,          \* the last IDT operation performed
    last_irq,         \* the last value returned by irqalloc()
    \* ---- AHCI port ----
    cmds,             \* AhciPortProtected.cmds: slot -> request id or NoCmd
    free_cmds,        \* AhciPortProtected.free_cmds
    ci,               \* HbaPort.ci, as the set of slots whose bit is set
    is_tfes,          \* HbaPort.is: task-file-error status bit
    rd,               \* the position of the (single) caller inside AhciPort::read
    reads,            \* number of reads started
    issue_log,        \* the commands issued so far, in order
    next_frame,       \* the next frame the frame allocator hands out
    \* ---- AHCI controller ----
    hba,              \* the position of start_hba and what it has done so far
    \* ---- PCI bitmap ----
    bitmap,           \* Bitmap.bitmap: the blocks, each as the set of its set bits
    found,            \* what the last find_first_unset returned
    \* ---- busy check ----
    busy_obs,         \* the last task-file-data values read and what the check made of them
    \* ---- command header ----
    header,           \* the flags word of one command header and the command that wrote it
    \* ---- AHCI interrupt ----
    ahci_irq,         \* start_driver's position, the AHCI handler's position and the IS registers
    \* ---- IO-APICs ----
    apic,             \* init_all_available_apics: its position and the redirection entries written
    \* ---- port start ----
    pstart,           \* HbaPort::start: its position, the port's cmd and ie registers and the command headers
    \* ---- preemption on two cores ----
    cores             \* task_sched running on several cores: each core's position and loaded values

schedVars == <<PTABLE, PTABLE_IDX, ACTIVE_LAPIC_ID, lapic_ids, overflow_checks,
               invocations, eoi_count, tick, fault>>
idtVars   == <<IDT, IDT_CLONE, idtr, allocs, last_op, last_irq>>
ahciVars  == <<cmds, free_cmds, ci, is_tfes, rd, reads, issue_log, next_frame>>
hbaVars   == <<hba>>
bitmapVars == <<bitmap, found>>
tfdVars   == <<busy_obs>>
hdrVars   == <<header>>
irqVars   == <<ahci_irq>>
apicVars  == <<apic>>
pstartVars == <<pstart>>
smpVars   == <<cores>>
vars      == <<schedVars, idtVars, ahciVars, hbaVars, bitmapVars, tfdVars, hdrVars, irqVars, apicVars, pstartVars, smpVars, cpu>>

(***************************************************************************)
(* Bounds of the model.                                                    *)
(***************************************************************************)
MaxProcs == 3
MaxCpus == 3
MaxTicks == 6
MaxPendingAllocs == 2
MaxReads == 2
MaxDmaSectors == 264
MaxPorts == 2
MaxBlocks == 2
MaxIrqs == 2
MaxIoApics == 2
MaxSmpTicks == 2

(***************************************************************************)
(* Preemption driver.                                                      *)
(***************************************************************************)

\* Local-APIC ids the platform may report (32-bit values; 0 is the usual
\* id of the bootstrap processor).
LapicIdPool == {0, 1, 2, 7}

IsInjective(s) == \A i, j \in DOMAIN s : s[i] = s[j] => i = j

\* get_lapic_ids(): a non-empty sequence of distinct ids.
LapicIdSeqs ==
    {s \in UNION {[1..n -> LapicIdPool] : n \in 1..MaxCpus} : IsInjective(s)}

ProcStates == {"Runnable", "Blocked"}

\* The process table holds its entries under the keys 0 .. len-1.
ProcTables == UNION {[0..(n - 1) -> ProcStates] : n \in 0..MaxProcs}

TableLen(t) == Cardinality(DOMAIN t)

\* Outcome of run() on the selected entry.
RunResults == {"Ok", "Err"}

\* The vector on which task_sched sends its inter-processor interrupt.
IpiVector == 100

\* What one invocation of task_sched did (observation record).
NoTick == [len |-> 0, idx |-> 0, lookups |-> <<>>, blocked |-> {}, runnable |-> {},
           ran |-> {}, ipis |-> <<>>, events |-> <<>>, done |-> "none"]

\* State threaded through the scheduling part of task_sched.
SchedStart(t, idx) ==
    [tbl |-> t, idx |-> idx, lookups |-> <<>>, blocked |-> {}, runnable |-> {},
     ran |-> {}, events |-> <<>>, panicked |-> FALSE]

\* (PTABLE.read())[&k]: indexing the table panics when the key is absent.
Lookup(st, k) ==
    IF st.panicked THEN st
    ELSE IF k \in DOMAIN st.tbl
         THEN [st EXCEPT !.lookups = Append(@, k)]
         ELSE [st EXCEPT !.lookups = Append(@, k), !.panicked = TRUE]

\* (PTABLE.read())[&k].write().set_state(s)
SetState(st, k, s) ==
    LET l == Lookup(st, k) IN
    IF l.panicked THEN l
    ELSE [l EXCEPT !.tbl[k] = s,
                   !.blocked = IF s = "Blocked" THEN @ \cup {k} ELSE @,
                   !.runnable = IF s = "Runnable" THEN @ \cup {k} ELSE @,
                   !.events = Append(@, "set_state")]

\* (PTABLE.read())[&k].write().run().unwrap()
Run(st, k, r) ==
    LET l == Lookup(st, k) IN
    IF l.panicked THEN l
    ELSE [l EXCEPT !.ran = @ \cup {k},
                   !.events = Append(@, "run"),
                   !.panicked = (r = "Err")]

\* PTABLE_IDX.load() - 1 on a usize: with overflow checks the subtraction
\* panics at 0; without them it wraps to usize::MAX, written here as the
\* value idx - 1 = -1, which like usize::MAX is the key of no entry.
PrevKey(st, checks) ==
    IF st.idx = 0 /\ checks
    THEN [st EXCEPT !.panicked = TRUE]
    ELSE st

\* if PTABLE_IDX < len { fetch_add(1) } else { store(0) }
Advance(st) ==
    IF st.panicked THEN st
    ELSE [st EXCEPT !.idx = IF st.idx < TableLen(st.tbl) THEN st.idx + 1 ELSE 0,
                    !.events = Append(@, "advance")]

\* SchedBranch without the is_empty() guard.
SchedBranchNoEmptyGuard(t) ==
    IF TableLen(t) = 1 THEN "single" ELSE "multi"

\* The branch of task_sched the table length selects.
SchedBranch(t) ==
    IF TableLen(t) = 0 THEN "empty"
    ELSE IF TableLen(t) = 1 THEN "single" ELSE "multi"

\* The scheduling part of task_sched (interrupts.rs:148-182).
SchedPart(t, idx, r, checks) ==
    LET s0 == SchedStart(t, idx) IN
    CASE SchedBranch(t) = "empty"  -> s0
      [] SchedBranch(t) = "single" ->
            Advance(Run(SetState(s0, idx, "Runnable"), idx, r))
      [] SchedBranch(t) = "multi"  ->
            LET s1 == PrevKey(s0, checks)
                s2 == IF s1.panicked THEN s1 ELSE SetState(s1, idx - 1, "Blocked")
                s3 == SetState(s2, idx, "Runnable")
            IN Advance(Run(s3, idx, r))

\* get_lapic_ids().cycle().nth(n)
CycleNth(ids, n) == ids[(n % Len(ids)) + 1]

\* Position at which lapic_iter.any(|id| id == x) stops.
FirstPos(ids, x) ==
    CHOOSE i \in 1..Len(ids) : ids[i] = x /\ \A j \in 1..(i - 1) : ids[j] # x

\* Hand-off that takes the numerically next id instead of the next id of
\* the discovered sequence.
LapicPartNumericNext(active, ids) ==
    IF active = 0
    THEN [active |-> ids[1],
          ipis |-> <<[vector |-> IpiVector, dest |-> CycleNth(ids, 1)]>>,
          outcome |-> "ok"]
    ELSE IF \E i \in 1..Len(ids) : ids[i] = active
         THEN [active |-> active + 1,
               ipis |-> <<[vector |-> IpiVector, dest |-> active + 1]>>,
               outcome |-> "ok"]
         ELSE [active |-> active, ipis |-> <<>>, outcome |-> "spin"]

\* The hand-off part of task_sched (interrupts.rs:184-207).
LapicPart(active, ids) ==
    IF active = 0
    THEN [active |-> ids[1],
          ipis |-> <<[vector |-> IpiVector, dest |-> CycleNth(ids, 1)]>>,
          outcome |-> "ok"]
    ELSE IF \E i \in 1..Len(ids) : ids[i] = active
         THEN LET next == CycleNth(ids, FirstPos(ids, active)) IN
              [active |-> next,
               ipis |-> <<[vector |-> IpiVector, dest |-> next]>>,
               outcome |-> "ok"]
         \* any() over a cycled non-empty iterator never ends without a match
         ELSE [active |-> active, ipis |-> <<>>, outcome |-> "spin"]

\* extern "x86-interrupt" fn task_sched (interrupts.rs:146-212)
task_sched(r) ==
    /\ cpu = "running"
    /\ invocations < MaxTicks
    /\ LET s == SchedPart(PTABLE, PTABLE_IDX, r, overflow_checks)
           l == LapicPart(ACTIVE_LAPIC_ID, lapic_ids)
           obs == [len |-> TableLen(PTABLE), idx |-> PTABLE_IDX,
                   lookups |-> s.lookups, blocked |-> s.blocked,
                   runnable |-> s.runnable, ran |-> s.ran,
                   ipis |-> <<>>, events |-> s.events, done |-> "panic"]
       IN /\ PTABLE' = s.tbl
          /\ PTABLE_IDX' = s.idx
          /\ invocations' = invocations + 1
          /\ IF s.panicked
             THEN /\ cpu' = "panicked"
                  /\ tick' = obs
                  /\ UNCHANGED <<ACTIVE_LAPIC_ID, eoi_count>>
             ELSE IF l.outcome = "spin"
             THEN /\ cpu' = "spinning"
                  /\ tick' = [obs EXCEPT !.done = "spin"]
                  /\ UNCHANGED <<ACTIVE_LAPIC_ID, eoi_count>>
             ELSE /\ cpu' = cpu
                  /\ ACTIVE_LAPIC_ID' = l.active
                  /\ eoi_count' = eoi_count + 1
                  /\ tick' = [obs EXCEPT !.ipis = l.ipis,
                                         !.events = s.events \o <<"store_lapic", "send_ipi", "eoi">>,
                                         !.done = "eoi"]
    /\ UNCHANGED <<lapic_ids, overflow_checks, fault, idtVars, ahciVars, hbaVars, bitmapVars, tfdVars, hdrVars, irqVars, apicVars, pstartVars, smpVars>>

(***************************************************************************)
(* Architectural exception handlers.                                       *)
(***************************************************************************)

\* The exceptions whose handlers kill the current unit or only log.
FaultKinds == {"divide_error", "bound_range_exceeded", "invalid_opcode",
               "device_not_available", "invalid_tss", "segment_not_present",
               "stack_segment_fault", "general_protection_fault"}

\* The requested privilege level of the code segment in the stack frame.
Rings == 0..3

\* The handler the IDT template binds to each exception
\* (interrupts.rs:70-92).
HandlerOf(kind) ==
    CASE kind = "divide_error" -> "sigfpe"
      [] kind = "bound_range_exceeded" -> "bound_range_exceeded"
      [] kind = "invalid_opcode" -> "invalid_op"
      [] kind = "device_not_available" -> "navail"
      [] kind = "invalid_tss" -> "invalid_tss"
      [] kind = "segment_not_present" -> "sigbus"
      [] kind = "stack_segment_fault" -> "sigsegv"
      [] kind = "general_protection_fault" -> "general_protection"

\* The signal each handler passes to kill(); invalid_tss has no kill.
KillSignal(handler) ==
    CASE handler = "sigfpe" -> "SIGFPE"
      [] handler = "bound_range_exceeded" -> "SIGFPE"
      [] handler = "invalid_op" -> "SIGILL"
      [] handler = "navail" -> "SIGSYS"
      [] handler = "sigbus" -> "SIGBUS"
      [] handler = "sigsegv" -> "SIGSEGV"
      [] handler = "general_protection" -> "SIGABRT"
      [] OTHER -> "none"

\* The handlers that only log and return, whatever the privilege level
\* (interrupts.rs:313-318).
LogOnly == {"invalid_tss"}

NoFault == [kind |-> "none", ring |-> 0, idx |-> 0, halted |-> FALSE,
            killed |-> {}, signal |-> "none", code |-> {}, mapped |-> FALSE]

\* What a handler does with a fault at the given privilege level: panic at
\* Ring0, otherwise (PTABLE.read())[&PTABLE_IDX.load()].write().kill(sig),
\* where the indexing panics if the index is the key of no entry.
HandleFault(kind, ring, tbl, idx) ==
    LET h == HandlerOf(kind)
        obs == [NoFault EXCEPT !.kind = kind, !.ring = ring, !.idx = idx]
    IN IF h \in LogOnly THEN obs
       ELSE IF ring = 0 THEN [obs EXCEPT !.halted = TRUE]
       ELSE IF idx \in DOMAIN tbl
            THEN [obs EXCEPT !.killed = {idx}, !.signal = KillSignal(h)]
            ELSE [obs EXCEPT !.halted = TRUE]

\* An architectural exception reaching its handler. Code at a user
\* privilege level exists only when the process table has an entry.
exception(kind, ring) ==
    /\ cpu = "running"
    /\ ring # 0 => TableLen(PTABLE) > 0
    /\ fault' = HandleFault(kind, ring, PTABLE, PTABLE_IDX)
    /\ cpu' = IF fault'.halted THEN "panicked" ELSE cpu
    /\ UNCHANGED <<PTABLE, PTABLE_IDX, ACTIVE_LAPIC_ID, lapic_ids, overflow_checks,
                   invocations, eoi_count, tick, idtVars, ahciVars, hbaVars, bitmapVars, tfdVars, hdrVars, irqVars, apicVars, pstartVars, smpVars>>

\* Bits of PageFaultErrorCode. The processor sets USER_MODE exactly when
\* the access was made at privilege level 3.
PageFaultBits == {"PROTECTION_VIOLATION", "CAUSED_BY_WRITE", "USER_MODE"}

\* CS::get_reg().rpl() (interrupts.rs:288): the code-segment register is
\* read inside the handler, where it holds the kernel selector the gate
\* loaded, not the selector saved in the stack frame.
HandlerCsRpl == 0

\* page_fault (interrupts.rs:271-302): an empty error code maps the page
\* at the address in CR2 (present, writable, uncached) and returns with
\* iretq; otherwise the handler panics if the code segment it reads is at
\* Ring0 and kills the current entry with SIGSEGV if it is not.
PageFault(code, ring, tbl, idx) ==
    LET obs == [NoFault EXCEPT !.kind = "page_fault", !.ring = ring, !.idx = idx,
                               !.code = code]
    IN IF code = {} THEN [obs EXCEPT !.mapped = TRUE]
       ELSE IF HandlerCsRpl = 0 THEN [obs EXCEPT !.halted = TRUE]
       ELSE IF idx \in DOMAIN tbl
            THEN [obs EXCEPT !.killed = {idx}, !.signal = "SIGSEGV"]
            ELSE [obs EXCEPT !.halted = TRUE]

\* A page fault reaching its handler.
page_fault(code, ring) ==
    /\ cpu = "running"
    /\ ring # 0 => TableLen(PTABLE) > 0
    /\ "USER_MODE" \in code <=> ring = 3
    /\ fault' = PageFault(code, ring, PTABLE, PTABLE_IDX)
    /\ cpu' = IF fault'.halted THEN "panicked" ELSE cpu
    /\ UNCHANGED <<PTABLE, PTABLE_IDX, ACTIVE_LAPIC_ID, lapic_ids, overflow_checks,
                   invocations, eoi_count, tick, idtVars, ahciVars, hbaVars, bitmapVars, tfdVars, hdrVars, irqVars, apicVars, pstartVars, smpVars>>

(***************************************************************************)
(* IDT manager.                                                            *)
(***************************************************************************)

\* Entry::missing()
Missing == "missing"

Vectors == 0..255

\* Values of INTA_IRQ..INTD_IRQ when the IDT template is built: 0 while the
\* PCI routing table has not been evaluated, irq + 32 afterwards.
PinConfigs == {<<0, 0, 0, 0>>, <<48, 49, 50, 51>>}

\* The assignments of the lazy_static IDT template, in source order; a later
\* assignment to the same vector replaces an earlier one.
TemplateAssignments(pins) ==
    << <<8, "double_fault">>, <<14, "page_fault">>, <<0, "sigfpe">>,
       <<10, "invalid_tss">>, <<11, "sigbus">>, <<12, "sigsegv">>,
       <<13, "general_protection">>, <<3, "breakpoint">>,
       <<5, "bound_range_exceeded">>, <<6, "invalid_op">>, <<7, "navail">>,
       <<254, "timer">>, <<49, "lapic_err">>, <<255, "spurious">>,
       <<pins[1], "pin_inta">>, <<pins[2], "pin_intb">>,
       <<pins[3], "pin_intc">>, <<pins[4], "pin_intd">>,
       <<128, "syscall">>, <<132, "task_sched">>, <<139, "pci">>,
       <<130, "spurious">>, <<151, "ahci">> >>

RECURSIVE ApplyAssignments(_, _, _)
ApplyAssignments(t, a, i) ==
    IF i > Len(a) THEN t
    ELSE ApplyAssignments([t EXCEPT ![a[i][1]] = a[i][2]], a, i + 1)

\* lazy_static! IDT (interrupts.rs:60-110)
IdtTemplate(pins) ==
    ApplyAssignments([v \in Vectors |-> Missing], TemplateAssignments(pins), 1)

\* Handlers bound through register_handler (pci_impl.rs:972).
DynHandlers == {"msi_x"}

\* The vectors irqalloc scans.
AllocRange == 32..255

\* Scan starting at vector 0 instead of 32.
ScanFromZero(t) ==
    {v \in Vectors : t[v] = Missing /\ \A u \in Vectors : u < v => t[u] # Missing}

\* The result of the scan of irqalloc: the set holding the vector
\* returned, or the empty set when the scan falls through to the panic.
Scan(t) ==
    {v \in AllocRange : t[v] = Missing /\ \A u \in AllocRange : u < v => t[u] # Missing}

\* An IDT_CLONE that has not been dereferenced yet.
NoClone == [ready |-> FALSE, table |-> <<>>]

\* The effect of init() on IDT_CLONE: the snapshot is taken when the
\* lazy static is first dereferenced and kept afterwards.
CloneOnce(clone, t) ==
    IF clone.ready THEN clone ELSE [ready |-> TRUE, table |-> t]

\* pub fn init() (interrupts.rs:39-44)
init ==
    /\ cpu = "running"
    /\ IDT_CLONE' = CloneOnce(IDT_CLONE, IDT)
    /\ idtr' = IDT_CLONE'.table
    /\ last_op' = "init"
    /\ UNCHANGED <<IDT, allocs, last_irq, cpu, schedVars, ahciVars, hbaVars, bitmapVars, tfdVars, hdrVars, irqVars, apicVars, pstartVars, smpVars>>

\* pub fn irqalloc() (interrupts.rs:515-523)
irqalloc ==
    /\ cpu = "running"
    /\ Len(allocs) < MaxPendingAllocs
    /\ last_op' = "irqalloc"
    /\ IF Scan(IDT) = {}
       THEN /\ cpu' = "panicked"
            /\ UNCHANGED <<allocs, last_irq>>
       ELSE /\ \E v \in Scan(IDT) :
                 /\ last_irq' = v
                 /\ allocs' = Append(allocs, v)
            /\ cpu' = cpu
    /\ UNCHANGED <<IDT, IDT_CLONE, idtr, schedVars, ahciVars, hbaVars, bitmapVars, tfdVars, hdrVars, irqVars, apicVars, pstartVars, smpVars>>

\* pub fn register_handler(irq, handler) (interrupts.rs:526-529)
register_handler(irq, handler) ==
    /\ cpu = "running"
    /\ IDT' = [IDT EXCEPT ![irq] = handler]
    /\ IDT_CLONE' = CloneOnce(IDT_CLONE, IDT')
    /\ idtr' = IDT_CLONE'.table
    /\ allocs' = SelectSeq(allocs, LAMBDA v : v # irq)
    /\ last_op' = "register"
    /\ UNCHANGED <<last_irq, cpu, schedVars, ahciVars, hbaVars, bitmapVars, tfdVars, hdrVars, irqVars, apicVars, pstartVars, smpVars>>

(***************************************************************************)
(* AHCI port: command slots, request scheduling and command issue.         *)
(***************************************************************************)

\* The 32 command slots of a port.
Slots == 0..31

\* An empty entry of AhciPortProtected.cmds (Option::None).
NoCmd == 0

\* Task-file-data values a read of the tfd register may return:
\* 0x00, 0x08 (DRQ), 0x50 (ready), 0x80 (BSY), 0x88 (BSY|DRQ).
TfdValues == {0, 8, 80, 128, 136}

\* Buffer lengths, in bytes, passed to AhciPort::read.
ReadLens == {512, 66048}

\* Start sectors passed to AhciPort::read.
ReadSectors == {0}

\* Number of commands earlier, completed reads have run on the port.
PriorCommands == {0, 30}

\* Largest sector count of one command (run_request, mod.rs:900).
MaxCmdSectors == 128

\* Initial value of the busy-wait counter of run_command (mod.rs:839).
SpinLimit == 100

Min(a, b) == IF a < b THEN a ELSE b

\* let count = (buffer.len() + 512 - 1) / 512 (mod.rs:961)
SectorCount(len) == (len + 512 - 1) \div 512

\* Page::<Size4KiB>::SIZE
PageSize == 4096

\* static BUDDY_SIZE (mod.rs:45-49): 4 KiB, 16 KiB, 2 MiB.
BUDDY_SIZE == <<PageSize, PageSize * 4, 2097152>>

\* enum BuddyOrdering as usize (mod.rs:53-58)
RawOrder(order) == IF order = "Size4KiB" THEN 0 ELSE 2

\* The size of the region an order stands for.
OrderSize(order) == IF order = "Size4KiB" THEN 4096 ELSE 8192

\* pmm_alloc(order) on the frame the frame allocator returns (mod.rs:60-116):
\* the physical base returned, the physical pages mapped and the number of
\* bytes zero-filled from the base.
pmm_alloc(order, frame) ==
    [base  |-> frame * PageSize,
     pages |-> IF order = "Size4KiB"
               THEN {frame * PageSize}
               ELSE {frame * PageSize, frame * PageSize + 4096},
     fill  |-> BUDDY_SIZE[RawOrder(order) + 1]]

ChunkSizeNoMin(size) == 8192

\* The data size of the next buffer: core::cmp::min(size, 0x2000) (mod.rs:323)
ChunkSize(size) == Min(size, 8192)

\* The ordering of the next buffer (mod.rs:324-328)
ChunkOrder(size) == IF size > 4096 THEN "Size8KiB" ELSE "Size4KiB"

\* The `while size > 0` loop of DmaRequest::new (mod.rs:322-334): the
\* buffers pushed, each with what its pmm_alloc call did.
RECURSIVE Buffers(_, _)
Buffers(size, frame) ==
    IF size <= 0 THEN <<>>
    ELSE LET a == pmm_alloc(ChunkOrder(size), frame) IN
         <<[start |-> a.base, data_size |-> ChunkSize(size),
            order |-> ChunkOrder(size), pages |-> a.pages, fill |-> a.fill]>>
         \o Buffers(size - ChunkSize(size), frame + 1)

\* DmaRequest::new(sector, count) (mod.rs:318-342)
DmaRequestNew(sector, count, frame) ==
    [sector |-> sector, count |-> count, buffer |-> Buffers(count * 512, frame),
     command |-> "Read"]

\* DmaRequest::as_command (mod.rs:371-383)
as_command(request) ==
    IF request.sector > 268435455 THEN "ReadDmaExt" ELSE "ReadDma"

at_offset_sectors(request, offset) ==
    [first |-> offset,
     bufs  |-> SubSeq(request.buffer, offset + 1, Len(request.buffer))]

\* DmaRequest::at_offset (mod.rs:385-387): &self.buffer[offset / 16..],
\* with the index in the buffer list of its first element.
at_offset(request, offset) ==
    [first |-> offset \div 16,
     bufs  |-> SubSeq(request.buffer, (offset \div 16) + 1, Len(request.buffer))]

PrdtLenShiftOnly(count) == (count \div 16) + 1

\* let length = ((count - 1) >> 4) + 1 (mod.rs:806)
PrdtLen(count) == ((count - 1) \div 16) + 1

\* The PRDT entries run_command writes (mod.rs:812-818): entry pri takes
\* the base of buffer[pri], its data size minus one in bits 0..21 of the
\* flags, and interrupt-on-completion in bit 31.
PrdtEntries(bufs, length) ==
    [pri \in 1..Min(Len(bufs), length) |->
        [dba |-> bufs[pri].start,
         dbc |-> (bufs[pri].data_size - 1) % 2097152,
         ioc |-> (pri - 1 = length - 1)]]

\* What run_request and run_command put into slot i for the chunk of the
\* request at the given offset (mod.rs:900-908, 792-834).
CommandAt(request, id, offset, remaining, i) ==
    LET n == Min(remaining, MaxCmdSectors)
        slice == at_offset(request, offset)
    IN [slot |-> i, req |-> id, opcode |-> as_command(request),
        sector |-> request.sector + offset, count |-> n,
        first_buf |-> slice.first,
        prdtl |-> PrdtLen(n),
        prdt |-> PrdtEntries(slice.bufs, PrdtLen(n))]

\* DmaRequest::copy_into (mod.rs:349-369): for each buffer in turn, the
\* destination offset and the number of bytes copied from it.
RECURSIVE CopyPlan(_, _, _, _)
CopyPlan(bufs, i, offset, remaining) ==
    IF i > Len(bufs) THEN <<>>
    ELSE LET count == Min(remaining, 8192) IN
         <<[buf |-> i - 1, offset |-> offset, count |-> count]>>
         \o CopyPlan(bufs, i + 1, offset + count, remaining - count)

NoRequest == [sector |-> 0, count |-> 0, buffer |-> <<>>, command |-> "Read"]

Idle == [pc |-> "idle", req |-> 0, len |-> 0, request |-> NoRequest, offset |-> 0,
         remaining |-> 0, slot |-> 0, n |-> 0, spin |-> 0,
         hung |-> FALSE, aborted |-> FALSE,
         ret |-> "none", result |-> 0, transferred |-> 0, copy |-> <<>>]

\* Slot search with the test inverted (is_some instead of is_none).
FindSlotOccupied(c) ==
    {i \in Slots : c[i] # NoCmd /\ \A j \in Slots : j < i => c[j] = NoCmd}

\* self.cmds.iter().enumerate().find_map(|(i, e)| if e.is_none() ...)
\* as the set holding the slot found, or the empty set for Option::None.
FindSlot(c) ==
    {i \in Slots : c[i] = NoCmd /\ \A j \in Slots : j < i => c[j] # NoCmd}

\* AhciPort::read up to the call of AhciPort::run_request (mod.rs:960-964)
read(sector, len) ==
    /\ cpu = "running"
    /\ rd.pc = "idle"
    /\ reads < MaxReads
    /\ reads' = reads + 1
    /\ LET request == DmaRequestNew(sector, SectorCount(len), next_frame) IN
         /\ rd' = [Idle EXCEPT !.pc = "outer", !.req = reads + 1, !.len = len,
                               !.request = request]
         /\ next_frame' = next_frame + Len(request.buffer)
    /\ UNCHANGED <<cmds, free_cmds, ci, is_tfes, issue_log, cpu, schedVars, idtVars, hbaVars, bitmapVars, tfdVars, hdrVars, irqVars, apicVars, pstartVars, smpVars>>

\* The bytes the device has written to the DMA buffers of request id: 512
\* for every sector of each of its commands whose command-issue bit the
\* device has cleared.
Transferred(id, log, issued) ==
    LET sum[k \in 0..Len(log)] ==
            IF k = 0 THEN 0
            ELSE sum[k - 1] + (IF log[k].req = id /\ log[k].slot \notin issued
                               THEN log[k].count * 512 ELSE 0)
    IN sum[Len(log)]

\* AhciPort::run_request: `while offset < request.count` (mod.rs:953-957),
\* and the rest of AhciPort::read once the loop is left (mod.rs:966-970).
run_request_outer ==
    /\ cpu = "running"
    /\ rd.pc = "outer"
    /\ IF rd.offset < rd.request.count
       THEN rd' = [rd EXCEPT !.pc = "sched", !.remaining = rd.request.count - rd.offset]
       ELSE rd' = [rd EXCEPT !.pc = "idle", !.ret = "Some",
                             !.result = rd.request.count * 512,
                             !.copy = CopyPlan(rd.request.buffer, 1, 0, rd.len),
                             !.transferred = Transferred(rd.req, issue_log, ci)]
    /\ UNCHANGED <<cmds, free_cmds, ci, is_tfes, reads, issue_log, next_frame, cpu, schedVars, idtVars, hbaVars, bitmapVars, tfdVars, hdrVars, irqVars, apicVars, pstartVars, smpVars>>

\* AhciPortProtected::run_request: `while remaining > 0`, the slot search
\* and HbaPort::run_command up to `self.ci.set(1 << slot)`
\* (mod.rs:890-908, 792-839).
run_request_issue ==
    /\ cpu = "running"
    /\ rd.pc = "sched"
    /\ IF rd.remaining = 0 \/ FindSlot(cmds) = {}
       THEN /\ rd' = [rd EXCEPT !.pc = "outer"]
            /\ UNCHANGED <<ci, issue_log>>
       ELSE \E i \in FindSlot(cmds) :
              LET c == CommandAt(rd.request, rd.req, rd.offset, rd.remaining, i) IN
              /\ ci' = ci \cup {i}
              /\ issue_log' = Append(issue_log, c)
              /\ rd' = [rd EXCEPT !.pc = "busy", !.slot = i, !.n = c.count,
                                  !.spin = SpinLimit]
    /\ UNCHANGED <<cmds, free_cmds, is_tfes, reads, next_frame, cpu, schedVars, idtVars, hbaVars, bitmapVars, tfdVars, hdrVars, irqVars, apicVars, pstartVars, smpVars>>

\* The statements of run_request after run_command has returned
\* (mod.rs:910-923).
AfterCommand(r) ==
    [r EXCEPT !.pc = "sched", !.remaining = r.remaining - r.n, !.offset = r.offset + r.n]

\* (self.tfd.get() == 0x80 || self.tfd.get() == 0x08), on the values the
\* two reads of the register return.
PortBusy(v1, v2) == v1 = 128 \/ v2 = 8

\* HbaCmdHeaderFlags (mod.rs:260-269): bit positions in the 16-bit flags word.
FlagW == 6
FlagP == 7
FlagC == 10

HasFlag(bits, k) == (bits \div (2 ^ k)) % 2 = 1
insert(bits, k)  == IF HasFlag(bits, k) THEN bits ELSE bits + 2 ^ k
remove(bits, k)  == IF HasFlag(bits, k) THEN bits - 2 ^ k ELSE bits

\* BitField::set_bits(0..=4, size) on a 16-bit value.
set_bits_0_4(bits, size) == (bits - (bits % 32)) + (size % 32)

\* size_of::<FisRegH2D>() / 4 (mod.rs:469-491): twenty one-byte-aligned bytes.
FisRegH2DSize == 1 + 1 + 1 + 1 + 4 + 4 + 2 + 1 + 1 + 4
CommandFisDwords == FisRegH2DSize \div 4

\* #[repr(C)] struct HbaCmdTbl (mod.rs:533-539): the offset of prdt_entry
\* behind cfis, acmd and _reserved.
PrdtEntryOffset == 64 + 16 + 48

\* size_of::<HbaPrdtEntry>() (mod.rs:552-557): dba, _reserved, flags.
PrdtEntrySize == 8 + 4 + 4

\* The byte ranges [lo, hi) of the command table at ctb that run_command
\* writes for a command with the given PRDT (mod.rs:809-834): one range
\* for each entry reached through prdt_entry_mut(pri) and one for the
\* FIS at the start of cfis.
CmdTblWrites(ctb, prdt) ==
    {[lo |-> ctb, hi |-> ctb + FisRegH2DSize]}
    \cup {[lo |-> ctb + PrdtEntryOffset + PrdtEntrySize * (pri - 1),
           hi |-> ctb + PrdtEntryOffset + PrdtEntrySize * pri] : pri \in DOMAIN prdt}

\* set_command_fis_size (mod.rs:275-277): self.bits() returns the flags word
\* by value, set_bits changes that temporary, and the flags keep their bits.
set_command_fis_size(bits, size) ==
    LET temporary == set_bits_0_4(bits, size) IN bits

AtaCommands == {"ReadDma", "ReadDmaExt", "WriteDma", "WriteDmaExt", "IdentifyDevice"}

\* The flags word run_command stores for `command` in a header whose flags
\* word held `old` (mod.rs:793-804).
HeaderFlags(old, command) ==
    LET f1 == IF command \in {"WriteDmaExt", "WriteDma"}
              THEN insert(old, FlagW) ELSE remove(old, FlagW)
        f2 == insert(insert(f1, FlagP), FlagC)
    IN  set_command_fis_size(f2, CommandFisDwords)

\* The contents of the flags word before the first command: the command
\* list is the memory the port's CLB register names, which start() reads
\* and writes back without filling it (mod.rs:722-724).
HeaderFlagValues == 0..2047

\* run_command, the header part (mod.rs:792-804).
run_command_header ==
    /\ cpu = "running"
    /\ ~header.written
    /\ header' = [header EXCEPT !.written = TRUE,
                                !.flags = HeaderFlags(header.flags, header.command)]
    /\ UNCHANGED <<cpu, schedVars, idtVars, ahciVars, hbaVars, bitmapVars, tfdVars, irqVars, apicVars, pstartVars, smpVars>>

HdrInit == header \in [written : {FALSE}, command : AtaCommands, flags : HeaderFlagValues]

HdrQuiet == header = [written |-> FALSE, command |-> "ReadDma", flags |-> 0]

\* Every value the low byte of the task-file-data register can hold.
TfdBytes == 0..255

NoBusyObs == [read |-> FALSE, v1 |-> 0, v2 |-> 0, busy |-> FALSE]

\* The condition of the busy loop evaluated on its own, on the values the
\* two reads of the register return (mod.rs:843).
busy_check ==
    /\ cpu = "running"
    /\ ~busy_obs.read
    /\ busy_obs' = [busy_obs EXCEPT !.read = TRUE,
                                    !.busy = PortBusy(busy_obs.v1, busy_obs.v2)]
    /\ UNCHANGED <<cpu, schedVars, idtVars, ahciVars, hbaVars, bitmapVars, hdrVars, irqVars, apicVars, pstartVars, smpVars>>

\* run_command: one evaluation of the busy loop (mod.rs:843-851).
run_command_busy(v1, v2) ==
    /\ cpu = "running"
    /\ rd.pc = "busy"
    /\ IF PortBusy(v1, v2) /\ rd.spin > 0
       THEN /\ rd' = [rd EXCEPT !.spin = rd.spin - 1]
            /\ UNCHANGED <<cmds, free_cmds>>
       ELSE IF rd.spin = 0
       THEN \* port hung: run_command returns
            /\ rd' = [AfterCommand(rd) EXCEPT !.hung = TRUE]
            /\ cmds' = [cmds EXCEPT ![rd.slot] = rd.req]
            /\ free_cmds' = free_cmds - 1
       ELSE /\ rd' = [rd EXCEPT !.pc = "wait"]
            /\ UNCHANGED <<cmds, free_cmds>>
    /\ UNCHANGED <<ci, is_tfes, reads, issue_log, next_frame, cpu, schedVars, idtVars, hbaVars, bitmapVars, tfdVars, hdrVars, irqVars, apicVars, pstartVars, smpVars>>

\* self.ci.get() & (1 << slot) == 1: the masked register value is 0 or
\* 2^slot, which equals 1 only for slot 0.
WaitCond(c, slot) == slot \in c /\ slot = 0

\* run_command: one evaluation of the completion loop (mod.rs:854-859).
run_command_wait ==
    /\ cpu = "running"
    /\ rd.pc = "wait"
    /\ IF WaitCond(ci, rd.slot) /\ ~is_tfes
       THEN UNCHANGED <<rd, cmds, free_cmds>>
       ELSE /\ rd' = [AfterCommand(rd) EXCEPT !.aborted = @ \/ WaitCond(ci, rd.slot)]
            /\ cmds' = [cmds EXCEPT ![rd.slot] = rd.req]
            /\ free_cmds' = free_cmds - 1
    /\ UNCHANGED <<ci, is_tfes, reads, issue_log, next_frame, cpu, schedVars, idtVars, hbaVars, bitmapVars, tfdVars, hdrVars, irqVars, apicVars, pstartVars, smpVars>>

\* The device completes the command of slot s and the HBA clears its bit
\* in the command-issue register.
hw_complete(s) ==
    /\ s \in ci
    /\ ci' = ci \ {s}
    /\ UNCHANGED <<cmds, free_cmds, is_tfes, rd, reads, issue_log, next_frame, cpu, schedVars, idtVars, hbaVars, bitmapVars, tfdVars, hdrVars, irqVars, apicVars, pstartVars, smpVars>>

\* The device reports a task-file error: the HBA sets PxIS.TFES.
hw_error ==
    /\ ci # {}
    /\ ~is_tfes
    /\ is_tfes' = TRUE
    /\ UNCHANGED <<cmds, free_cmds, ci, rd, reads, issue_log, next_frame, cpu, schedVars, idtVars, hbaVars, bitmapVars, tfdVars, hdrVars, irqVars, apicVars, pstartVars, smpVars>>

(***************************************************************************)
(* Initial states and specifications.                                      *)
(***************************************************************************)

\* The process table and the current index as the process module creates
\* them.
ProcInit ==
    /\ PTABLE \in ProcTables
    /\ PTABLE_IDX = 0

SchedInit ==
    /\ ProcInit
    /\ ACTIVE_LAPIC_ID = 0
    /\ lapic_ids \in LapicIdSeqs
    /\ overflow_checks \in BOOLEAN
    /\ invocations = 0
    /\ eoi_count = 0
    /\ tick = NoTick
    /\ fault = NoFault

IdtInit ==
    /\ \E pins \in PinConfigs : IDT = IdtTemplate(pins)
    /\ IDT_CLONE = NoClone
    /\ idtr = <<>>
    /\ allocs = <<>>
    /\ last_op = "none"
    /\ last_irq = 0

(***************************************************************************)
(* The AHCI controller: start_hba and the probe of each implemented port.  *)
(***************************************************************************)

\* The ports the ports-implemented register may name.
PortPool == {0, 5, 31}

\* The values of the ports-implemented register, as the set of its set bits.
PiValues == {m \in SUBSET PortPool : Cardinality(m) <= MaxPorts}

\* The values read through the ssts field. The field is declared as a
\* 64-bit cell (HbaSataStatus(u64)): its low word is the SATA status
\* register and its high word the register that follows it.
DetValues == 0..15
IpmValues == {0, 1, 2, 3, 6, 8}
StatusNoise == {[spd |-> 0, upper |-> 0, hi |-> 0], [spd |-> 15, upper |-> 5, hi |-> 768]}
SataStatusValues ==
    {[lo |-> det + 16 * x.spd + 256 * ipm + 4096 * x.upper, hi |-> x.hi] :
        det \in DetValues, ipm \in IpmValues, x \in StatusNoise}

NoStatus == [lo |-> -1, hi |-> -1]

\* BitField::get_bits(first..=last) on the 64-bit value, for a range inside
\* one of its two words.
get_bits(status, first, last) ==
    IF last < 32
    THEN (status.lo \div (2 ^ first)) % (2 ^ (last - first + 1))
    ELSE (status.hi \div (2 ^ (first - 32))) % (2 ^ (last - first + 1))

device_detection_3bits(status) ==
    LET v == get_bits(status, 0, 2) IN
    CASE v = 0 -> "None"
      [] v = 1 -> "PresentNotE"
      [] v = 3 -> "PresentAndE"
      [] v = 4 -> "Offline"
      [] OTHER -> "panic"

\* HbaSataStatus::device_detection (mod.rs:616-624)
device_detection(status) ==
    LET v == get_bits(status, 0, 3) IN
    CASE v = 0 -> "None"
      [] v = 1 -> "PresentNotE"
      [] v = 3 -> "PresentAndE"
      [] v = 4 -> "Offline"
      [] OTHER -> "panic"

\* HbaSataStatus::interface_power_management (mod.rs:626-635)
interface_power_management(status) ==
    LET v == get_bits(status, 8, 11) IN
    CASE v = 0 -> "None"
      [] v = 1 -> "Active"
      [] v = 2 -> "Partial"
      [] v = 6 -> "Slumber"
      [] v = 8 -> "DevSleep"
      [] OTHER -> "panic"

\* HbaPort::probe (mod.rs:763-782), up to the call of start(): the power
\* state is decoded first, then the detection state, and either decode
\* may panic.
probe(status) ==
    LET ipm == interface_power_management(status) IN
    IF ipm = "panic" THEN [dd |-> "uncalled", outcome |-> "panic"]
    ELSE LET dd == device_detection(status) IN
         IF dd = "panic" THEN [dd |-> dd, outcome |-> "panic"]
         ELSE IF dd = "PresentAndE" /\ ipm = "Active"
              THEN [dd |-> dd, outcome |-> "start"]
              ELSE [dd |-> dd, outcome |-> "skip"]

NextPortAny(pi, from) == from

\* `for i in 0..32 { if pi.get_bit(i) {` (mod.rs:1016-1017): the next
\* index at or after `from` that enters the body, or 32.
NextPort(pi, from) ==
    IF \E j \in pi : j >= from /\ j < 32
    THEN CHOOSE j \in pi : j >= from /\ j < 32 /\ \A k \in pi : k >= from => j <= k
    ELSE 32

\* The fields of drivers/ahci HbaPort, a #[repr(C)] struct (mod.rs:638-658),
\* with the size and the alignment of each in bytes. PhysAddr is a u64, the
\* bitflags types are u32, and HbaSataStatus is declared as a u64
\* (mod.rs:611-613).
DriverPortFields ==
    <<[name |-> "clb", size |-> 8, align |-> 8],
      [name |-> "fb", size |-> 8, align |-> 8],
      [name |-> "is", size |-> 4, align |-> 4],
      [name |-> "ie", size |-> 4, align |-> 4],
      [name |-> "cmd", size |-> 4, align |-> 4],
      [name |-> "_reserved", size |-> 4, align |-> 4],
      [name |-> "tfd", size |-> 4, align |-> 4],
      [name |-> "sig", size |-> 4, align |-> 4],
      [name |-> "ssts", size |-> 8, align |-> 8],
      [name |-> "sctl", size |-> 4, align |-> 4],
      [name |-> "serr", size |-> 4, align |-> 4],
      [name |-> "sact", size |-> 4, align |-> 4],
      [name |-> "ci", size |-> 4, align |-> 4],
      [name |-> "sntf", size |-> 4, align |-> 4],
      [name |-> "fbs", size |-> 4, align |-> 4],
      [name |-> "devslp", size |-> 4, align |-> 4],
      [name |-> "_reserved_1", size |-> 40, align |-> 4],
      [name |-> "vendor", size |-> 16, align |-> 4]>>

\* The fields of the reference HbaPort, a #[repr(C, packed)] struct
\* (ahci/hba/structs.rs:46-65).
ReferencePortFields ==
    <<[name |-> "cli_base", size |-> 8, align |-> 4],
      [name |-> "fis_base", size |-> 8, align |-> 4],
      [name |-> "interrupt_status", size |-> 4, align |-> 4],
      [name |-> "interrupt_enable", size |-> 4, align |-> 4],
      [name |-> "command", size |-> 4, align |-> 4],
      [name |-> "_rsvd0", size |-> 4, align |-> 4],
      [name |-> "task_file_data", size |-> 4, align |-> 4],
      [name |-> "signature", size |-> 4, align |-> 4],
      [name |-> "sata_status", size |-> 4, align |-> 4],
      [name |-> "sata_ctrl", size |-> 4, align |-> 4],
      [name |-> "sata_err", size |-> 4, align |-> 4],
      [name |-> "sata_active", size |-> 4, align |-> 4],
      [name |-> "cmd_issue", size |-> 4, align |-> 4],
      [name |-> "notification", size |-> 4, align |-> 4],
      [name |-> "fis_switch", size |-> 4, align |-> 4],
      [name |-> "_rsvd1", size |-> 44, align |-> 4],
      [name |-> "vendor", size |-> 16, align |-> 4]>>

\* The least multiple of a that is not below x.
AlignUp(x, a) == ((x + a - 1) \div a) * a

\* The byte offsets the compiler gives the fields of a struct: each field
\* goes to the next multiple of its alignment, or directly after the field
\* before it when the struct is packed.
FieldOffsets(fields, packed) ==
    LET off[k \in 1..Len(fields)] ==
            IF k = 1 THEN 0
            ELSE AlignUp(off[k - 1] + fields[k - 1].size,
                         IF packed THEN 1 ELSE fields[k].align)
    IN off

\* The alignment of a struct: 1 when packed, else the largest alignment of
\* a field.
StructAlign(fields, packed) ==
    IF packed THEN 1
    ELSE CHOOSE a \in {fields[k].align : k \in DOMAIN fields} :
            \A k \in DOMAIN fields : fields[k].align <= a

\* core::mem::size_of of a struct: the end of the last field, rounded up to
\* the alignment of the struct.
SizeOf(fields, packed) ==
    LET n == Len(fields) IN
    AlignUp(FieldOffsets(fields, packed)[n] + fields[n].size, StructAlign(fields, packed))

\* The offset of the named field.
OffsetOf(fields, packed, name) ==
    LET k == CHOOSE j \in DOMAIN fields : fields[j].name = name IN
    FieldOffsets(fields, packed)[k]

\* The size of the field of that name.
FieldSize(fields, name) ==
    LET k == CHOOSE j \in DOMAIN fields : fields[j].name = name IN fields[k].size

\* size_of::<HbaMemory>() (mod.rs:452-467): eleven 32-bit registers, then
\* the reserved and vendor areas up to 0x100.
HbaMemorySize == 11 * 4 + (160 - 44) + (256 - 160)

\* HbaMemory::port_mut (mod.rs:863-867): the byte offset from the HBA base
\* of (self as *mut Self).offset(1) as *mut HbaPort, advanced by `port`
\* elements.
port_mut(port) == HbaMemorySize + port * SizeOf(DriverPortFields, FALSE)

HbaIdle(pi) ==
    [pc |-> "init", i |-> 0, pi |-> pi, ie |-> FALSE,
     ports |-> {}, probed |-> {}, started |-> {},
     addr |-> [j \in 0..31 |-> -1],
     seen |-> [j \in 0..31 |-> NoStatus],
     dd |-> [j \in 0..31 |-> "uncalled"]]

\* start_hba up to the read of ports_implemented (mod.rs:994-1014).
start_hba_begin ==
    /\ cpu = "running"
    /\ hba.pc = "init"
    /\ LET first == NextPort(hba.pi, 0) IN
         hba' = [hba EXCEPT !.ie = TRUE, !.i = first,
                            !.pc = IF first >= 32 THEN "done" ELSE "loop"]
    /\ UNCHANGED <<cpu, schedVars, idtVars, ahciVars, bitmapVars, tfdVars, hdrVars, irqVars, apicVars, pstartVars, smpVars>>

\* One pass through the body of the loop of start_hba (mod.rs:1016-1034),
\* for the implemented port hba.i: probe reads the status, starts the
\* port if it is present and active, and start_hba then records it. The
\* command engine of a started port either comes to rest or keeps
\* start() spinning in stop_cmd / start_cmd (mod.rs:743-761).
start_hba_port(status, engine_rests) ==
    /\ cpu = "running"
    /\ hba.pc = "loop"
    /\ LET i == hba.i
           p == probe(status)
           next == NextPort(hba.pi, i + 1)
           seenp == [hba EXCEPT !.probed = @ \cup {i}, !.addr[i] = port_mut(i),
                                !.seen[i] = status, !.dd[i] = p.dd]
           on == [seenp EXCEPT !.i = next, !.pc = IF next >= 32 THEN "done" ELSE "loop"]
       IN CASE p.outcome = "panic" ->
                 /\ hba' = seenp
                 /\ cpu' = "panicked"
            [] p.outcome = "start" /\ ~engine_rests ->
                 /\ hba' = [seenp EXCEPT !.started = @ \cup {i}]
                 /\ cpu' = "spinning"
            [] p.outcome = "start" /\ engine_rests ->
                 /\ hba' = [on EXCEPT !.started = @ \cup {i}, !.ports = @ \cup {i}]
                 /\ cpu' = cpu
            [] OTHER ->
                 /\ hba' = on
                 /\ cpu' = cpu
    /\ UNCHANGED <<schedVars, idtVars, ahciVars, bitmapVars, tfdVars, hdrVars, irqVars, apicVars, pstartVars, smpVars>>

(***************************************************************************)
(* The bitmap of the PCI module.                                           *)
(***************************************************************************)

\* BLOCK_BITS (pci_impl.rs:43): the bits of a usize.
BLOCK_BITS == 64

FullBlock == 0..(BLOCK_BITS - 1)

\* The contents a block may start with.
BlockValues == {{}, {0}, {1}, {0, 1}, {5, 63}, FullBlock \ {63}, FullBlock \ {7}, FullBlock}

\* The bit indices handed to set().
BitIndices == {0, 1, 7, 63, 64, 65, 127, 128}

\* calculate_blocks (pci_impl.rs:114-120)
calculate_blocks(bits) ==
    IF bits % BLOCK_BITS = 0 THEN bits \div BLOCK_BITS ELSE (bits \div BLOCK_BITS) + 1

\* usize::get_bit(0) and `>>= 1` on a block.
LowBit(block) == 0 \in block
ShiftRight(block) == {b - 1 : b \in block \ {0}}

\* The `while block_value.get_bit(0)` loop of find_first_unset
\* (pci_impl.rs:224-227): the value of `bit` when it ends.
RECURSIVE TrailingOnes(_)
TrailingOnes(block) ==
    IF LowBit(block) THEN 1 + TrailingOnes(ShiftRight(block)) ELSE 0

\* The closure mapped over the blocks (pci_impl.rs:217-231); i counts
\* from 0.
BlockCandidate(i, block) ==
    IF block = {} THEN i * BLOCK_BITS
    ELSE (i * BLOCK_BITS) + TrailingOnes(block)

NoneFound == [called |-> TRUE, some |-> FALSE, value |-> 0]

NotCalled == [called |-> FALSE, some |-> FALSE, value |-> 0]

\* Bitmap::find_first_unset (pci_impl.rs:213-233): .nth(0) of the mapped
\* blocks.
find_first_unset_of(blocks) ==
    IF Len(blocks) = 0 THEN NoneFound
    ELSE [called |-> TRUE, some |-> TRUE, value |-> BlockCandidate(0, blocks[1])]

\* Bitmap::set (pci_impl.rs:178-184): nothing happens when the block does
\* not exist.
set(bit_idx, yes) ==
    /\ cpu = "running"
    /\ LET block_idx == bit_idx \div BLOCK_BITS
           mod_bit_idx == bit_idx % BLOCK_BITS
       IN bitmap' = IF block_idx + 1 \in DOMAIN bitmap
                    THEN [bitmap EXCEPT ![block_idx + 1] =
                             IF yes THEN @ \cup {mod_bit_idx} ELSE @ \ {mod_bit_idx}]
                    ELSE bitmap
    /\ found' = NotCalled
    /\ UNCHANGED <<cpu, schedVars, idtVars, ahciVars, hbaVars, tfdVars, hdrVars, irqVars, apicVars, pstartVars, smpVars>>

find_first_unset ==
    /\ cpu = "running"
    /\ found' = find_first_unset_of(bitmap)
    /\ UNCHANGED <<bitmap, cpu, schedVars, idtVars, ahciVars, hbaVars, tfdVars, hdrVars, irqVars, apicVars, pstartVars, smpVars>>

(***************************************************************************)
(* start_driver and the AHCI interrupt handler on one core.                *)
(*                                                                         *)
(* The port variables (cmds, free_cmds, ci, is_tfes, rd, ...) are those of *)
(* the first live port, on which the test read is followed statement by    *)
(* statement; of the test reads on the other live ports only the taking    *)
(* and the release of the port's lock are followed. While the handler      *)
(* runs cpu is "irq" and the interrupted code takes no step.               *)
(***************************************************************************)

\* The interrupt-status bit of a port that the device raises besides TFES.
PortIsFlags == {"DHRS"}

NoIrq ==
    [drv |-> "unstarted", cur |-> -1, next |-> 0,
     pc |-> "none", i |-> 32, status |-> {}, port_status |-> {},
     gis |-> {}, pis |-> [p \in PortPool |-> {}],
     rlog |-> <<>>, wlog |-> <<>>, count |-> 0, eoi |-> 0]

\* A loop over the ports that takes none of them.
NextLiveNone(ports, from) == 32

\* ports.iter_mut().flatten() (interrupts.rs:475) and
\* self.ports.iter().filter(|p| p.is_some()) (mod.rs:1078): the next index
\* at or after `from` whose entry is Some, or 32.
NextLive(ports, from) ==
    IF \E j \in ports : j >= from
    THEN CHOOSE j \in ports : j >= from /\ \A k \in ports : k >= from => j <= k
    ELSE 32

FirstLive == NextLive(hba.ports, 0)

\* The port the test loop of start_driver turns to after the first one.
NextTested == NextLive(hba.ports, IF ahci_irq.next = 0 THEN FirstLive + 1 ELSE ahci_irq.next)

\* get_ahci().write().start_driver(header) (mod.rs:1122): the guard lives
\* until start_driver has returned.
DriverLockedByMain == ahci_irq.drv \in {"start_hba", "test_read"}

\* self.inner.write().run_request(request.clone(), offset) (mod.rs:956):
\* the guard lives for the call of AhciPortProtected::run_request.
PortLockedByMain(p) ==
    \/ ahci_irq.cur = p
    \/ p = FirstLive /\ rd.pc \in {"sched", "busy", "wait"}

\* The value of the interrupt-status register of port p.
PortIs(p) ==
    ahci_irq.pis[p] \cup (IF p = FirstLive /\ is_tfes THEN {"TFES"} ELSE {})

\* AhciDriver::start and start_driver up to without_interrupts
\* (mod.rs:1118-1124, 1047-1066).
start_driver_begin ==
    /\ cpu = "running"
    /\ ahci_irq.drv = "unstarted"
    /\ ahci_irq' = [ahci_irq EXCEPT !.drv = "start_hba"]
    /\ UNCHANGED <<cpu, schedVars, idtVars, ahciVars, hbaVars, bitmapVars, tfdVars, hdrVars, apicVars, pstartVars, smpVars>>

\* without_interrupts(|| { self.start_hba(); self.enable_interrupts(header) })
\* (mod.rs:1068-1071): no interrupt is taken inside, start_hba sets GHC.IE
\* and leaves the ports `live` in self.ports.
start_driver_hba(live) ==
    /\ cpu = "running"
    /\ ahci_irq.drv = "start_hba"
    /\ ahci_irq' = [ahci_irq EXCEPT !.drv = "test_read"]
    /\ hba' = [hba EXCEPT !.pc = "done", !.ie = TRUE, !.pi = live, !.ports = live,
                          !.probed = live, !.started = live]
    /\ UNCHANGED <<cpu, schedVars, idtVars, ahciVars, bitmapVars, tfdVars, hdrVars, apicVars, pstartVars, smpVars>>

\* The test read on the first live port: port.read(0, &mut [0u8; 512])
\* (mod.rs:1078-1083).
test_read ==
    /\ ahci_irq.drv = "test_read"
    /\ hba.ports # {}
    /\ reads = 0
    /\ read(0, 512)

\* The test read on a further live port, up to the point where it holds
\* the port's lock (mod.rs:1078-1083, 956).
test_read_lock ==
    /\ cpu = "running"
    /\ ahci_irq.drv = "test_read"
    /\ reads = 1 /\ rd.pc = "idle"
    /\ ahci_irq.cur = -1
    /\ NextTested < 32
    /\ ahci_irq' = [ahci_irq EXCEPT !.cur = NextTested]
    /\ UNCHANGED <<cpu, schedVars, idtVars, ahciVars, hbaVars, bitmapVars, tfdVars, hdrVars, apicVars, pstartVars, smpVars>>

\* That test read from the release of the port's lock to its return.
test_read_unlock ==
    /\ cpu = "running"
    /\ ahci_irq.cur # -1
    /\ ahci_irq' = [ahci_irq EXCEPT !.cur = -1, !.next = ahci_irq.cur + 1]
    /\ UNCHANGED <<cpu, schedVars, idtVars, ahciVars, hbaVars, bitmapVars, tfdVars, hdrVars, apicVars, pstartVars, smpVars>>

\* start_driver returns once every live port has been read
\* (mod.rs:1078-1094), and the driver lock is released.
start_driver_end ==
    /\ cpu = "running"
    /\ ahci_irq.drv = "test_read"
    /\ rd.pc = "idle" /\ ahci_irq.cur = -1
    /\ \/ hba.ports = {}
       \/ reads = 1 /\ NextTested = 32
    /\ ahci_irq' = [ahci_irq EXCEPT !.drv = "done"]
    /\ UNCHANGED <<cpu, schedVars, idtVars, ahciVars, hbaVars, bitmapVars, tfdVars, hdrVars, apicVars, pstartVars, smpVars>>

\* A port raises an interrupt: the HBA sets a bit of the port's IS
\* register and the port's bit of the global one.
hw_port_interrupt(p, f) ==
    /\ hba.ie
    /\ p \in hba.ports
    /\ f \notin ahci_irq.pis[p] \/ p \notin ahci_irq.gis
    /\ ahci_irq' = [ahci_irq EXCEPT !.pis[p] = @ \cup {f}, !.gis = @ \cup {p}]
    /\ UNCHANGED <<cpu, schedVars, idtVars, ahciVars, hbaVars, bitmapVars, tfdVars, hdrVars, apicVars, pstartVars, smpVars>>

\* The AHCI vector is delivered: the core leaves the code it runs and
\* enters the handler (interrupts.rs:465-466).
ahci_enter ==
    /\ cpu = "running"
    /\ hba.ie
    /\ ahci_irq.drv # "start_hba"
    /\ ahci_irq.count < MaxIrqs
    /\ cpu' = "irq"
    /\ ahci_irq' = [ahci_irq EXCEPT !.pc = "read_is", !.count = @ + 1,
                          !.rlog = <<>>, !.wlog = <<>>]
    /\ UNCHANGED <<schedVars, idtVars, ahciVars, hbaVars, bitmapVars, tfdVars, hdrVars, apicVars, pstartVars, smpVars>>

\* let status = get_hba().interrupt_status.get() (interrupts.rs:471);
\* get_hba takes the driver lock for reading (mod.rs:1127-1129), which
\* spins while a writer holds it.
ahci_read_is ==
    /\ cpu = "irq"
    /\ ahci_irq.pc = "read_is"
    /\ ~DriverLockedByMain
    /\ ahci_irq' = [ahci_irq EXCEPT !.pc = "write_is", !.status = ahci_irq.gis,
                          !.rlog = Append(@, [port |-> -1, value |-> ahci_irq.gis])]
    /\ UNCHANGED <<cpu, schedVars, idtVars, ahciVars, hbaVars, bitmapVars, tfdVars, hdrVars, apicVars, pstartVars, smpVars>>

\* get_hba().interrupt_status.set(status) (interrupts.rs:472): the bits
\* written as one are cleared.
ahci_write_is ==
    /\ cpu = "irq"
    /\ ahci_irq.pc = "write_is"
    /\ ~DriverLockedByMain
    /\ ahci_irq' = [ahci_irq EXCEPT !.pc = "lock", !.gis = @ \ ahci_irq.status,
                          !.wlog = Append(@, [port |-> -1, value |-> ahci_irq.status])]
    /\ UNCHANGED <<cpu, schedVars, idtVars, ahciVars, hbaVars, bitmapVars, tfdVars, hdrVars, apicVars, pstartVars, smpVars>>

\* for port in get_ahci().write().ports...flatten() (interrupts.rs:475):
\* the write guard is taken, and held for the loop.
ahci_lock ==
    /\ cpu = "irq"
    /\ ahci_irq.pc = "lock"
    /\ ~DriverLockedByMain
    /\ ahci_irq' = [ahci_irq EXCEPT !.i = FirstLive,
                          !.pc = IF FirstLive >= 32 THEN "eoi" ELSE "port_read"]
    /\ UNCHANGED <<cpu, schedVars, idtVars, ahciVars, hbaVars, bitmapVars, tfdVars, hdrVars, apicVars, pstartVars, smpVars>>

\* let port_status = port.inner.write().hba_port().is.get()
\* (interrupts.rs:476-487).
ahci_port_read ==
    /\ cpu = "irq"
    /\ ahci_irq.pc = "port_read"
    /\ ~PortLockedByMain(ahci_irq.i)
    /\ ahci_irq' = [ahci_irq EXCEPT !.pc = "port_write", !.port_status = PortIs(ahci_irq.i),
                          !.rlog = Append(@, [port |-> ahci_irq.i, value |-> PortIs(ahci_irq.i)])]
    /\ UNCHANGED <<cpu, schedVars, idtVars, ahciVars, hbaVars, bitmapVars, tfdVars, hdrVars, apicVars, pstartVars, smpVars>>

\* port.inner.write().hba_port().is.set(port_status) (interrupts.rs:489),
\* and the step of the loop to the next live port or to its end.
ahci_port_write ==
    /\ cpu = "irq"
    /\ ahci_irq.pc = "port_write"
    /\ ~PortLockedByMain(ahci_irq.i)
    /\ LET next == NextLive(hba.ports, ahci_irq.i + 1) IN
         ahci_irq' = [ahci_irq EXCEPT !.pis[ahci_irq.i] = @ \ ahci_irq.port_status,
                            !.wlog = Append(@, [port |-> ahci_irq.i, value |-> ahci_irq.port_status]),
                            !.i = next,
                            !.pc = IF next >= 32 THEN "eoi" ELSE "port_read"]
    /\ is_tfes' = (is_tfes /\ ~(ahci_irq.i = FirstLive /\ "TFES" \in ahci_irq.port_status))
    /\ UNCHANGED <<cmds, free_cmds, ci, rd, reads, issue_log, next_frame>>
    /\ UNCHANGED <<cpu, schedVars, idtVars, hbaVars, bitmapVars, tfdVars, hdrVars, apicVars, pstartVars, smpVars>>

\* get_active_lapic().end_of_interrupt() and the return to the interrupted
\* code (interrupts.rs:492-493).
ahci_eoi ==
    /\ cpu = "irq"
    /\ ahci_irq.pc = "eoi"
    /\ cpu' = "running"
    /\ ahci_irq' = [ahci_irq EXCEPT !.pc = "none", !.eoi = @ + 1]
    /\ UNCHANGED <<schedVars, idtVars, ahciVars, hbaVars, bitmapVars, tfdVars, hdrVars, apicVars, pstartVars, smpVars>>

IrqQuiet == ahci_irq = NoIrq

(***************************************************************************)
(* init_all_available_apics (apic_impl.rs:123-137).                        *)
(***************************************************************************)

\* The ids the bootstrap local APIC may report.
BootLapicIds == {0, 1, 2}

\* `for i in 0..(255 - 32)`: the number of passes of the inner loop.
IoApicPasses == 255 - 32

\* ioapic_irq!(pic, irq, dest) (apic_impl.rs:110-121): the redirection
\* entry written for `irq`; the vector is the irq number as a u8.
ioapic_irq(irq, dest) ==
    [index |-> irq, mode |-> "Fixed", flags |-> {"LEVEL_TRIGGERED", "LOW_ACTIVE"},
     vector |-> irq % 256, dest |-> dest % 256, enabled |-> TRUE]

ApicIdle(n, id) ==
    [pc |-> "init", n |-> n, k |-> 1, i |-> 0, id |-> id,
     table |-> [j \in 1..n |-> <<>>], interrupts |-> FALSE]

\* ioapic.init(32) for the IO-APIC at hand (apic_impl.rs:128), or, past
\* the last IO-APIC, x86_64::instructions::interrupts::enable()
\* (apic_impl.rs:135).
apic_init_or_enable ==
    /\ cpu = "running"
    /\ apic.pc = "init"
    /\ IF apic.k > apic.n
       THEN apic' = [apic EXCEPT !.pc = "done", !.interrupts = TRUE]
       ELSE apic' = [apic EXCEPT !.pc = "entries", !.i = 0]
    /\ UNCHANGED <<cpu, schedVars, idtVars, ahciVars, hbaVars, bitmapVars, tfdVars, hdrVars, irqVars, pstartVars, smpVars>>

\* One pass of `for i in 0..(255 - 32) { ioapic_irq!(ioapic, i, lapic.id()) }`
\* (apic_impl.rs:130-132), and the step to the next IO-APIC after the last.
apic_entry ==
    /\ cpu = "running"
    /\ apic.pc = "entries"
    /\ IF apic.i < IoApicPasses
       THEN apic' = [apic EXCEPT !.table[apic.k] = Append(@, ioapic_irq(apic.i, apic.id)),
                                 !.i = @ + 1]
       ELSE apic' = [apic EXCEPT !.pc = "init", !.k = @ + 1]
    /\ UNCHANGED <<cpu, schedVars, idtVars, ahciVars, hbaVars, bitmapVars, tfdVars, hdrVars, irqVars, pstartVars, smpVars>>

ApicQuiet == apic = ApicIdle(0, 0)

(***************************************************************************)
(* HbaPort::start, stop_cmd and start_cmd (mod.rs:683-761).                *)
(***************************************************************************)

\* HbaPortIE::all() (mod.rs:211-232).
HbaPortIEAll == {"DHRE", "PSE", "DSE", "SDBE", "UFE", "DPE", "PCE", "DMPE", "PRCE",
                 "IPME", "INFE", "IFE", "HBDE", "HBFE", "TFEE", "CPDE"}

\* The bits of the port's cmd register that the HBA owns: a write leaves
\* them as they are.
HwCmdBits == {"FR", "CR"}

\* self.cmd.set(value): the register after the write.
CmdWrite(cmd, value) == (value \ HwCmdBits) \cup (cmd \cap HwCmdBits)

\* A condition of stop_cmd with the FIS-receive bit left out.
StopBusyCrOnly(cmd) == cmd \cap {"CR"} # {}

\* self.cmd.get().intersects(HbaPortCmd::FR | HbaPortCmd::CR) (mod.rs:758)
StopBusy(cmd) == cmd \cap {"FR", "CR"} # {}

\* self.cmd.get().contains(HbaPortCmd::CR) (mod.rs:744)
StartBusy(cmd) == "CR" \in cmd

\* Command tables laid out 128 bytes apart.
CtbOfHalfStride(frame_addr, i) == frame_addr + 128 * i

\* frame_addr.as_u64() as usize + 256 * i (mod.rs:712-714)
CtbOf(frame_addr, i) == frame_addr + 256 * i

NoHeader == [prdtl |-> 0, prdbc |-> 0, ctb |-> -1]

PstartIdle(cmd, frame) ==
    [pc |-> "stop_clear", cmd |-> cmd, cmd0 |-> cmd, frame |-> frame, frame_addr |-> -1,
     i |-> 0, ie |-> {}, hdr |-> [j \in 0..31 |-> NoHeader], log |-> <<>>]

\* stop_cmd up to self.cmd.set(cmd) (mod.rs:753-756).
stop_cmd_clear ==
    /\ cpu = "running"
    /\ pstart.pc = "stop_clear"
    /\ pstart' = [pstart EXCEPT !.pc = "stop_wait",
                                !.cmd = CmdWrite(@, pstart.cmd \ {"FRE", "ST"}),
                                !.log = Append(@, [ev |-> "clear", cmd |-> pstart.cmd \ {"FRE", "ST"}])]
    /\ UNCHANGED <<cpu, schedVars, idtVars, ahciVars, hbaVars, bitmapVars, tfdVars, hdrVars, irqVars, apicVars, smpVars>>

\* The evaluation of stop_cmd's loop condition that leaves the loop
\* (mod.rs:758-760), and pmm_alloc(BuddyOrdering::Size8KiB) (mod.rs:690).
\* While the condition holds the loop spins and nothing changes.
stop_cmd_wait ==
    /\ cpu = "running"
    /\ pstart.pc = "stop_wait"
    /\ ~StopBusy(pstart.cmd)
    /\ pstart' = [pstart EXCEPT !.pc = "headers", !.i = 0,
                                !.frame_addr = pstart.frame * PageSize,
                                !.log = Append(@, [ev |-> "stop_seen", cmd |-> pstart.cmd])]
    /\ UNCHANGED <<cpu, schedVars, idtVars, ahciVars, hbaVars, bitmapVars, tfdVars, hdrVars, irqVars, apicVars, smpVars>>

\* One pass of `for i in 0..32` (mod.rs:705-715), and after the last the
\* statements up to self.cmd.set(POD | SUD) (mod.rs:718-737).
start_header ==
    /\ cpu = "running"
    /\ pstart.pc = "headers"
    /\ IF pstart.i < 32
       THEN pstart' = [pstart EXCEPT
                !.hdr[pstart.i] = [prdtl |-> 8, prdbc |-> 0,
                                   ctb |-> CtbOf(pstart.frame_addr, pstart.i)],
                !.i = @ + 1,
                !.log = Append(@, [ev |-> "header", cmd |-> pstart.cmd])]
       ELSE pstart' = [pstart EXCEPT !.pc = "start_wait", !.ie = HbaPortIEAll,
                                     !.cmd = CmdWrite(@, {"POD", "SUD"})]
    /\ UNCHANGED <<cpu, schedVars, idtVars, ahciVars, hbaVars, bitmapVars, tfdVars, hdrVars, irqVars, apicVars, smpVars>>

\* The evaluation of start_cmd's loop condition that leaves the loop
\* (mod.rs:744-746).
start_cmd_wait ==
    /\ cpu = "running"
    /\ pstart.pc = "start_wait"
    /\ ~StartBusy(pstart.cmd)
    /\ pstart' = [pstart EXCEPT !.pc = "start_set",
                                !.log = Append(@, [ev |-> "start_seen", cmd |-> pstart.cmd])]
    /\ UNCHANGED <<cpu, schedVars, idtVars, ahciVars, hbaVars, bitmapVars, tfdVars, hdrVars, irqVars, apicVars, smpVars>>

\* let value = self.cmd.get() | (FRE | ST); self.cmd.set(value)
\* (mod.rs:748-749), and the return of start.
start_cmd_set ==
    /\ cpu = "running"
    /\ pstart.pc = "start_set"
    /\ pstart' = [pstart EXCEPT !.pc = "returned",
                                !.cmd = CmdWrite(@, pstart.cmd \cup {"FRE", "ST"}),
                                !.log = Append(@, [ev |-> "set", cmd |-> pstart.cmd \cup {"FRE", "ST"}])]
    /\ UNCHANGED <<cpu, schedVars, idtVars, ahciVars, hbaVars, bitmapVars, tfdVars, hdrVars, irqVars, apicVars, smpVars>>

\* The HBA's engines follow the bits the driver writes: the command-list
\* engine runs (CR) only while ST is set and the FIS-receive engine (FR)
\* only while FRE is set.
hw_engine(bit) ==
    /\ pstart.pc # "returned"
    /\ \/ bit = "CR" /\ (("CR" \in pstart.cmd) # ("ST" \in pstart.cmd))
       \/ bit = "FR" /\ (("FR" \in pstart.cmd) # ("FRE" \in pstart.cmd))
    /\ pstart' = [pstart EXCEPT !.cmd = IF bit \in @ THEN @ \ {bit} ELSE @ \cup {bit}]
    /\ UNCHANGED <<cpu, schedVars, idtVars, ahciVars, hbaVars, bitmapVars, tfdVars, hdrVars, irqVars, apicVars, smpVars>>

PstartQuiet == pstart = PstartIdle({}, 0)

(***************************************************************************)
(* task_sched on two cores at once (interrupts.rs:146-212): every atomic   *)
(* load, store and lock acquisition of the scheduling part is a step of    *)
(* its own; the steps of the cores interleave in any order.                *)
(***************************************************************************)

SmpCores == {1, 2}

CoreIdle == [pc |-> "idle", k |-> 0, dec |-> "none", ticks |-> 0]

\* The cores inside run() on entry k: they hold the entry's write lock
\* ((PTABLE.read())[&k].write().run(), interrupts.rs:156-159, 169-172).
Running(k) == {c \in SmpCores : cores[c].pc = "running" /\ cores[c].k = k}

\* A panic on one core: the kernel halts.
SmpPanic(c) ==
    /\ cpu' = "panicked"
    /\ cores' = [cores EXCEPT ![c].pc = "panicked"]
    /\ UNCHANGED <<schedVars, idtVars, ahciVars, hbaVars, bitmapVars, tfdVars, hdrVars, irqVars, apicVars, pstartVars>>

\* if !(PTABLE.read().is_empty()) { if PTABLE.read().len() == 1
\* (interrupts.rs:148-149)
smp_enter(c) ==
    /\ cpu = "running"
    /\ cores[c].pc = "idle"
    /\ cores[c].ticks < MaxSmpTicks
    /\ cores' = [cores EXCEPT ![c].pc =
                    CASE SchedBranch(PTABLE) = "empty" -> "handoff"
                      [] SchedBranch(PTABLE) = "single" -> "mark"
                      [] SchedBranch(PTABLE) = "multi" -> "block"]
    /\ UNCHANGED <<cpu, schedVars, idtVars, ahciVars, hbaVars, bitmapVars, tfdVars, hdrVars, irqVars, apicVars, pstartVars>>

\* (PTABLE.read())[&(PTABLE_IDX.load() - 1)].write().set_state(Blocked)
\* (interrupts.rs:161-163)
smp_block(c) ==
    /\ cpu = "running"
    /\ cores[c].pc = "block"
    /\ LET k == PTABLE_IDX - 1 IN
       IF (PTABLE_IDX = 0 /\ overflow_checks) \/ k \notin DOMAIN PTABLE
       THEN SmpPanic(c)
       ELSE /\ Running(k) = {}
            /\ PTABLE' = [PTABLE EXCEPT ![k] = "Blocked"]
            /\ cores' = [cores EXCEPT ![c].pc = "mark"]
            /\ UNCHANGED <<cpu, PTABLE_IDX, ACTIVE_LAPIC_ID, lapic_ids, overflow_checks,
                           invocations, eoi_count, tick, fault,
                           idtVars, ahciVars, hbaVars, bitmapVars, tfdVars, hdrVars, irqVars, apicVars, pstartVars>>

\* (PTABLE.read())[&PTABLE_IDX.load()].write().set_state(Runnable)
\* (interrupts.rs:151-153, 165-167)
smp_mark(c) ==
    /\ cpu = "running"
    /\ cores[c].pc = "mark"
    /\ LET k == PTABLE_IDX IN
       IF k \notin DOMAIN PTABLE
       THEN SmpPanic(c)
       ELSE /\ Running(k) = {}
            /\ PTABLE' = [PTABLE EXCEPT ![k] = "Runnable"]
            /\ cores' = [cores EXCEPT ![c].pc = "load"]
            /\ UNCHANGED <<cpu, PTABLE_IDX, ACTIVE_LAPIC_ID, lapic_ids, overflow_checks,
                           invocations, eoi_count, tick, fault,
                           idtVars, ahciVars, hbaVars, bitmapVars, tfdVars, hdrVars, irqVars, apicVars, pstartVars>>

\* (PTABLE.read())[&PTABLE_IDX.load()]: the load and the lookup of the
\* entry to run (interrupts.rs:155, 169)
smp_load(c) ==
    /\ cpu = "running"
    /\ cores[c].pc = "load"
    /\ IF PTABLE_IDX \notin DOMAIN PTABLE
       THEN SmpPanic(c)
       ELSE /\ cores' = [cores EXCEPT ![c].pc = "locking", ![c].k = PTABLE_IDX]
            /\ UNCHANGED <<cpu, schedVars, idtVars, ahciVars, hbaVars, bitmapVars, tfdVars, hdrVars, irqVars, apicVars, pstartVars>>

\* .write().run(): the entry's lock is taken and run() begins
\* (interrupts.rs:156-157, 170-171)
smp_run(c) ==
    /\ cpu = "running"
    /\ cores[c].pc = "locking"
    /\ Running(cores[c].k) = {}
    /\ cores' = [cores EXCEPT ![c].pc = "running"]
    /\ UNCHANGED <<cpu, schedVars, idtVars, ahciVars, hbaVars, bitmapVars, tfdVars, hdrVars, irqVars, apicVars, pstartVars>>

\* run() returns and .unwrap() takes its result (interrupts.rs:158, 172)
smp_ran(c, r) ==
    /\ cpu = "running"
    /\ cores[c].pc = "running"
    /\ IF r = "Err"
       THEN SmpPanic(c)
       ELSE /\ cores' = [cores EXCEPT ![c].pc = "check"]
            /\ UNCHANGED <<cpu, schedVars, idtVars, ahciVars, hbaVars, bitmapVars, tfdVars, hdrVars, irqVars, apicVars, pstartVars>>

\* if PTABLE_IDX.load() < PTABLE.read().len() (interrupts.rs:175)
smp_check(c) ==
    /\ cpu = "running"
    /\ cores[c].pc = "check"
    /\ cores' = [cores EXCEPT ![c].pc = "advance",
                              ![c].dec = IF PTABLE_IDX < TableLen(PTABLE) THEN "add" ELSE "reset"]
    /\ UNCHANGED <<cpu, schedVars, idtVars, ahciVars, hbaVars, bitmapVars, tfdVars, hdrVars, irqVars, apicVars, pstartVars>>

\* PTABLE_IDX.fetch_add(1) or PTABLE_IDX.store(0) (interrupts.rs:177, 180)
smp_advance(c) ==
    /\ cpu = "running"
    /\ cores[c].pc = "advance"
    /\ PTABLE_IDX' = IF cores[c].dec = "add" THEN PTABLE_IDX + 1 ELSE 0
    /\ cores' = [cores EXCEPT ![c].pc = "handoff"]
    /\ UNCHANGED <<cpu, PTABLE, ACTIVE_LAPIC_ID, lapic_ids, overflow_checks,
                   invocations, eoi_count, tick, fault,
                   idtVars, ahciVars, hbaVars, bitmapVars, tfdVars, hdrVars, irqVars, apicVars, pstartVars>>

\* The hand-off part and the end-of-interrupt (interrupts.rs:184-211).
smp_handoff(c) ==
    /\ cpu = "running"
    /\ cores[c].pc = "handoff"
    /\ LET l == LapicPart(ACTIVE_LAPIC_ID, lapic_ids) IN
         IF l.outcome = "spin"
         THEN /\ cpu' = "spinning"
              /\ cores' = [cores EXCEPT ![c].pc = "spinning"]
              /\ UNCHANGED <<ACTIVE_LAPIC_ID, eoi_count, invocations>>
         ELSE /\ cpu' = cpu
              /\ ACTIVE_LAPIC_ID' = l.active
              /\ eoi_count' = eoi_count + 1
              /\ invocations' = invocations + 1
              /\ cores' = [cores EXCEPT ![c].pc = "idle", ![c].ticks = @ + 1]
    /\ UNCHANGED <<PTABLE, PTABLE_IDX, lapic_ids, overflow_checks, tick, fault,
                   idtVars, ahciVars, hbaVars, bitmapVars, tfdVars, hdrVars, irqVars, apicVars, pstartVars>>

SmpQuiet == cores = [c \in SmpCores |-> CoreIdle]

\* The first frame the frame allocator hands out to the driver.
FirstFrame == 256

\* A started port on which k commands of earlier reads have completed.
AhciInit ==
    /\ \E k \in PriorCommands :
         /\ cmds = [i \in Slots |-> IF i < k THEN 1 ELSE NoCmd]
         /\ free_cmds = 32 - k
    /\ ci = {}
    /\ is_tfes = FALSE
    /\ rd = Idle
    /\ reads = 0
    /\ issue_log = <<>>
    /\ next_frame = FirstFrame

\* One fixed state of each subsystem, for the specifications of the others.
SchedQuiet ==
    /\ PTABLE = <<>>
    /\ PTABLE_IDX = 0
    /\ ACTIVE_LAPIC_ID = 0
    /\ lapic_ids = <<0>>
    /\ overflow_checks = FALSE
    /\ invocations = 0
    /\ eoi_count = 0
    /\ tick = NoTick
    /\ fault = NoFault

IdtQuiet ==
    /\ IDT = IdtTemplate(<<0, 0, 0, 0>>)
    /\ IDT_CLONE = NoClone
    /\ idtr = <<>>
    /\ allocs = <<>>
    /\ last_op = "none"
    /\ last_irq = 0

AhciQuiet ==
    /\ cmds = [i \in Slots |-> NoCmd]
    /\ free_cmds = 32
    /\ ci = {}
    /\ is_tfes = FALSE
    /\ rd = Idle
    /\ reads = 0
    /\ issue_log = <<>>
    /\ next_frame = FirstFrame

\* A controller that start_hba is about to be run on.
HbaInit == \E pi \in PiValues : hba = HbaIdle(pi)

HbaQuiet == hba = HbaIdle({})

\* Bitmap::new_in(size) for every size of up to MaxBlocks blocks, with any
\* of the block contents.
BitmapInit ==
    /\ bitmap \in UNION {[1..calculate_blocks(size) -> BlockValues] :
                             size \in 0..(MaxBlocks * BLOCK_BITS)}
    /\ found = NotCalled

BitmapQuiet ==
    /\ bitmap = <<>>
    /\ found = NotCalled

TfdQuiet == busy_obs = NoBusyObs

SchedNext ==
    \/ \E r \in RunResults : task_sched(r)
    \/ \E kind \in FaultKinds, ring \in Rings : exception(kind, ring)
    \/ \E code \in SUBSET PageFaultBits, ring \in Rings : page_fault(code, ring)

SchedSpecInit == SchedInit /\ IdtQuiet /\ AhciQuiet /\ HbaQuiet /\ BitmapQuiet /\ TfdQuiet /\ HdrQuiet /\ IrqQuiet /\ ApicQuiet /\ PstartQuiet /\ SmpQuiet /\ cpu = "running"

SchedSpec == SchedSpecInit /\ [][SchedNext]_vars

IdtNext ==
    \/ init
    \/ irqalloc
    \/ \E i \in 1..Len(allocs), h \in DynHandlers : register_handler(allocs[i], h)

IdtSpecInit == IdtInit /\ SchedQuiet /\ AhciQuiet /\ HbaQuiet /\ BitmapQuiet /\ TfdQuiet /\ HdrQuiet /\ IrqQuiet /\ ApicQuiet /\ PstartQuiet /\ SmpQuiet /\ cpu = "running"

IdtSpec == IdtSpecInit /\ [][IdtNext]_vars

AhciNext ==
    \/ \E sector \in ReadSectors, len \in ReadLens : read(sector, len)
    \/ run_request_outer
    \/ run_request_issue
    \/ \E v1, v2 \in TfdValues : run_command_busy(v1, v2)
    \/ run_command_wait
    \/ \E s \in Slots : hw_complete(s)
    \/ hw_error

AhciSpecInit == AhciInit /\ SchedQuiet /\ IdtQuiet /\ HbaQuiet /\ BitmapQuiet /\ TfdQuiet /\ HdrQuiet /\ IrqQuiet /\ ApicQuiet /\ PstartQuiet /\ SmpQuiet /\ cpu = "running"

AhciSpec == AhciSpecInit /\ [][AhciNext]_vars

\* The lengths of the buffers handed to a single read: every whole number
\* of sectors up to MaxDmaSectors, and the lengths 212 bytes short of one.
DmaLens == {k * 512 : k \in 0..MaxDmaSectors} \cup {k * 512 - 212 : k \in 1..MaxDmaSectors}

\* The start sectors of a single read, on both sides of the 28-bit limit.
DmaSectors == {0, 268435455, 268435456}

\* One read on a started port whose device is never busy and reports no
\* error.
DmaNext ==
    \/ \E sector \in DmaSectors, len \in DmaLens : reads = 0 /\ read(sector, len)
    \/ run_request_outer
    \/ run_request_issue
    \/ run_command_busy(0, 0)
    \/ run_command_wait
    \/ \E s \in Slots : hw_complete(s)

DmaSpecInit == AhciInit /\ SchedQuiet /\ IdtQuiet /\ HbaQuiet /\ BitmapQuiet /\ TfdQuiet /\ HdrQuiet /\ IrqQuiet /\ ApicQuiet /\ PstartQuiet /\ SmpQuiet /\ cpu = "running"

DmaSpec == DmaSpecInit /\ [][DmaNext]_vars

\* The steps of the thread inside AhciPort::read once the read has begun.
DriverStep ==
    \/ run_request_outer
    \/ run_request_issue
    \/ \E v1, v2 \in TfdValues : run_command_busy(v1, v2)
    \/ run_command_wait

\* The device completing some command that is outstanding.
HwStep == \E s \in Slots : hw_complete(s)

\* The port with a thread that keeps running and a device that eventually
\* completes the commands it has been given.
AhciFairSpec ==
    AhciSpecInit /\ [][AhciNext]_vars /\ WF_vars(DriverStep) /\ WF_vars(HwStep)

HbaNext ==
    \/ start_hba_begin
    \/ \E status \in SataStatusValues, engine_rests \in BOOLEAN :
          start_hba_port(status, engine_rests)

HbaSpecInit == HbaInit /\ SchedQuiet /\ IdtQuiet /\ AhciQuiet /\ BitmapQuiet /\ TfdQuiet /\ HdrQuiet /\ IrqQuiet /\ ApicQuiet /\ PstartQuiet /\ SmpQuiet /\ cpu = "running"

HbaSpec == HbaSpecInit /\ [][HbaNext]_vars

BitmapNext ==
    \/ \E bit_idx \in BitIndices, yes \in BOOLEAN : set(bit_idx, yes)
    \/ find_first_unset

BitmapSpecInit ==
    BitmapInit /\ SchedQuiet /\ IdtQuiet /\ AhciQuiet /\ HbaQuiet /\ TfdQuiet /\ HdrQuiet /\ IrqQuiet /\ ApicQuiet /\ PstartQuiet /\ SmpQuiet /\ cpu = "running"

BitmapSpec == BitmapSpecInit /\ [][BitmapNext]_vars

TfdNext == busy_check

\* The register values the two reads of one evaluation return.
TfdInit == busy_obs \in [read : {FALSE}, v1 : TfdBytes, v2 : TfdBytes, busy : {FALSE}]

TfdSpecInit ==
    TfdInit /\ SchedQuiet /\ IdtQuiet /\ AhciQuiet /\ HbaQuiet /\ BitmapQuiet /\ HdrQuiet /\ IrqQuiet /\ ApicQuiet /\ PstartQuiet /\ SmpQuiet /\ cpu = "running"

TfdSpec == TfdSpecInit /\ [][TfdNext]_vars

HdrNext == run_command_header

HdrSpecInit ==
    HdrInit /\ SchedQuiet /\ IdtQuiet /\ AhciQuiet /\ HbaQuiet /\ BitmapQuiet /\ TfdQuiet /\ IrqQuiet /\ ApicQuiet /\ PstartQuiet /\ SmpQuiet /\ cpu = "running"

HdrSpec == HdrSpecInit /\ [][HdrNext]_vars

\* start_driver on a controller whose device answers the test read at
\* once, and the AHCI interrupt.
IrqNext ==
    \/ start_driver_begin
    \/ \E live \in PiValues : start_driver_hba(live)
    \/ test_read
    \/ run_request_outer
    \/ run_request_issue
    \/ run_command_busy(0, 0)
    \/ run_command_wait
    \/ test_read_lock
    \/ test_read_unlock
    \/ start_driver_end
    \/ \E s \in Slots : hw_complete(s)
    \/ hw_error
    \/ \E p \in PortPool, f \in PortIsFlags : hw_port_interrupt(p, f)
    \/ ahci_enter
    \/ ahci_read_is
    \/ ahci_write_is
    \/ ahci_lock
    \/ ahci_port_read
    \/ ahci_port_write
    \/ ahci_eoi

\* The driver as ahci_init leaves it (mod.rs:1138-1154): no port, and a
\* controller that start_hba has not touched.
IrqSpecInit ==
    IrqQuiet /\ SchedQuiet /\ IdtQuiet /\ AhciQuiet /\ HbaQuiet /\ BitmapQuiet /\ TfdQuiet /\ HdrQuiet /\ ApicQuiet /\ PstartQuiet /\ SmpQuiet /\ cpu = "running"

IrqSpec == IrqSpecInit /\ [][IrqNext]_vars

ApicNext ==
    \/ apic_init_or_enable
    \/ apic_entry

\* A machine with up to MaxIoApics IO-APICs, before the call.
ApicInit == \E n \in 0..MaxIoApics, id \in BootLapicIds : apic = ApicIdle(n, id)

ApicSpecInit ==
    ApicInit /\ SchedQuiet /\ IdtQuiet /\ AhciQuiet /\ HbaQuiet /\ BitmapQuiet /\ TfdQuiet /\ HdrQuiet /\ IrqQuiet /\ PstartQuiet /\ SmpQuiet /\ cpu = "running"

ApicSpec == ApicSpecInit /\ [][ApicNext]_vars

PstartNext ==
    \/ stop_cmd_clear
    \/ stop_cmd_wait
    \/ start_header
    \/ start_cmd_wait
    \/ start_cmd_set
    \/ \E bit \in HwCmdBits : hw_engine(bit)

\* A port as the firmware left it, with either engine running or not,
\* and the frame the allocator is about to hand out.
PstartInit ==
    \E cmd \in SUBSET {"ST", "FRE", "FR", "CR", "CLO"}, frame \in {FirstFrame, FirstFrame + 3} :
        pstart = PstartIdle(cmd, frame)

PstartSpecInit ==
    PstartInit /\ SchedQuiet /\ IdtQuiet /\ AhciQuiet /\ HbaQuiet /\ BitmapQuiet /\ TfdQuiet /\ HdrQuiet /\ IrqQuiet /\ ApicQuiet /\ SmpQuiet /\ cpu = "running"

PstartSpec == PstartSpecInit /\ [][PstartNext]_vars

SmpNext ==
    \E c \in SmpCores :
        \/ smp_enter(c)
        \/ smp_block(c)
        \/ smp_mark(c)
        \/ smp_load(c)
        \/ smp_run(c)
        \/ \E r \in RunResults : smp_ran(c, r)
        \/ smp_check(c)
        \/ smp_advance(c)
        \/ smp_handoff(c)

\* Two cores with the local-APIC ids 1 and 2, and any process table.
SmpInit ==
    /\ ProcInit
    /\ ACTIVE_LAPIC_ID = 0
    /\ lapic_ids = <<1, 2>>
    /\ overflow_checks \in BOOLEAN
    /\ invocations = 0
    /\ eoi_count = 0
    /\ tick = NoTick
    /\ fault = NoFault
    /\ SmpQuiet

SmpSpecInit ==
    SmpInit /\ IdtQuiet /\ AhciQuiet /\ HbaQuiet /\ BitmapQuiet /\ TfdQuiet /\ HdrQuiet /\ IrqQuiet /\ ApicQuiet /\ PstartQuiet /\ cpu = "running"

SmpSpec == SmpSpecInit /\ [][SmpNext]_vars

Init == SchedInit /\ IdtInit /\ AhciInit /\ HbaInit /\ BitmapInit /\ TfdInit /\ HdrInit /\ IrqQuiet /\ ApicInit /\ PstartInit /\ SmpQuiet /\ cpu = "running"

Next == SchedNext \/ IdtNext \/ AhciNext \/ HbaNext \/ BitmapNext \/ TfdNext \/ HdrNext \/ IrqNext \/ ApicNext \/ PstartNext \/ SmpNext

Spec == Init /\ [][Next]_vars

(***************************************************************************)
(* Properties of the preemption driver (checked under SchedSpec).          *)
(***************************************************************************)

\* C1: whenever the process table is non-empty, the current index
\* PTABLE_IDX lies in [0, table length), and every key the last tick
\* indexed the table with is the key of an existing entry.
C1_IndexInRange ==
    TableLen(PTABLE) > 0 =>
        /\ PTABLE_IDX \in 0..(TableLen(PTABLE) - 1)
        /\ \A i \in DOMAIN tick.lookups : tick.lookups[i] \in DOMAIN PTABLE

\* C2: a tick on a table of length >= 2 blocks exactly the entry at the
\* previous index, marks runnable and runs exactly the entry at the current
\* index, and advances the index by one modulo the table length.
C2_MultiTick ==
    (tick.done # "none" /\ tick.len >= 2) =>
        /\ tick.blocked = {(tick.idx + tick.len - 1) % tick.len}
        /\ tick.runnable = {tick.idx}
        /\ tick.ran = {tick.idx}
        /\ PTABLE_IDX = (tick.idx + 1) % tick.len

\* C3: a tick on a table of length 1 marks the sole entry Runnable, runs
\* it and does not mark it Blocked, on the first and on every later tick.
C3_SingleTick ==
    (tick.done # "none" /\ tick.len = 1) =>
        /\ tick.runnable = DOMAIN PTABLE
        /\ tick.ran = DOMAIN PTABLE
        /\ tick.blocked = {}

\* C4: a tick with an empty process table leaves the table and the current
\* index unchanged, indexes no table entry, and signals end-of-interrupt.
C4_EmptyTick ==
    [][(invocations' = invocations + 1 /\ TableLen(PTABLE) = 0) =>
          /\ PTABLE' = PTABLE
          /\ PTABLE_IDX' = PTABLE_IDX
          /\ tick'.lookups = <<>>
          /\ tick'.blocked = {} /\ tick'.runnable = {} /\ tick'.ran = {}
          /\ eoi_count' = eoi_count + 1
          /\ tick'.done = "eoi"
          /\ cpu' = "running"]_vars

C4_Witness ==
    /\ invocations >= 2
    /\ tick.len = 0
    /\ tick.done = "eoi"
    /\ eoi_count = invocations

\* C5: every invocation of task_sched ends by signalling end-of-interrupt
\* exactly once, as its last step, after the scheduling step and the IPI.
C5_EoiEveryInvocation ==
    tick.done # "none" =>
        /\ tick.done = "eoi"
        /\ eoi_count = invocations
        /\ Len(tick.events) >= 2
        /\ tick.events[Len(tick.events)] = "eoi"
        /\ tick.events[Len(tick.events) - 1] = "send_ipi"
        /\ Cardinality({i \in DOMAIN tick.events : tick.events[i] = "eoi"}) = 1

\* C6: after the k-th completed invocation the active local-APIC id is the
\* k-th id of the discovered sequence taken cyclically, so that every id is
\* taken exactly once per N invocations, in ring order.
C6_RingOrder ==
    (invocations >= 1 /\ eoi_count = invocations) =>
        ACTIVE_LAPIC_ID = CycleNth(lapic_ids, invocations - 1)

(***************************************************************************)
(* Properties of the IDT manager (checked under IdtSpec).                  *)
(***************************************************************************)

\* C7: irqalloc returns the lowest vector of 32..255 whose entry is the
\* missing sentinel, and panics exactly when no entry of 32..255 is
\* missing.
C7_IrqallocLowestMissing ==
    last_op = "irqalloc" =>
        IF cpu = "panicked"
        THEN \A v \in 32..255 : IDT[v] # Missing
        ELSE /\ last_irq \in 32..255
             /\ IDT[last_irq] = Missing
             /\ \A u \in 32..(last_irq - 1) : IDT[u] # Missing

C7_Witness ==
    /\ last_op = "irqalloc"
    /\ cpu = "running"
    /\ last_irq > 49
    /\ IDT[49] # Missing
    /\ IDT[32] \in DynHandlers

\* C8: the vectors handed out by irqalloc and not yet registered are
\* pairwise distinct.
C8_NoDoubleAllocation ==
    \A i, j \in DOMAIN allocs : i # j => allocs[i] # allocs[j]

\* C9: after init() or register_handler() has returned, the table loaded
\* into the CPU is the interrupt table as it is at that call, with every
\* handler registered so far.
C9_LoadedTableCurrent ==
    last_op \in {"init", "register"} => idtr = IDT

(***************************************************************************)
(* Properties of the AHCI port (checked under AhciSpec).                   *)
(***************************************************************************)

\* C10: a command is issued on a slot only while the slot's entry of cmds
\* is empty, and an entry of cmds goes from occupied to empty only when the
\* slot's bit of the command-issue register is clear.
C10_SlotLifecycle ==
    [][/\ Len(issue_log') = Len(issue_log) + 1 =>
            cmds[issue_log'[Len(issue_log')].slot] = NoCmd
       /\ \A s \in Slots :
            (cmds[s] # NoCmd /\ cmds'[s] = NoCmd) => s \notin ci]_vars

C10_Witness ==
    /\ Len(issue_log) >= 2
    /\ \E i \in DOMAIN issue_log :
          /\ issue_log[i].slot >= 30
          /\ cmds[issue_log[i].slot] = issue_log[i].req
          /\ issue_log[i].slot \notin ci

\* C11: when the slot-scheduling step gives up with sectors of the request
\* left over, the offset it returns is below the request's count; and with
\* a device that eventually completes every command it is given, a read
\* that has begun eventually returns.
C11_BackpressureAndProgress ==
    /\ []((rd.pc = "outer" /\ rd.remaining > 0) => rd.offset < rd.request.count)
    /\ ((rd.pc # "idle") ~> (rd.pc = "idle"))

(***************************************************************************)
(* Properties of DMA requests and commands (checked under DmaSpec).        *)
(***************************************************************************)

\* C16: the request built for count sectors has ceil(count / 16) buffers,
\* none larger than 8192 bytes and all but the last exactly 8192 bytes,
\* their sizes add up to count * 512, and every one of them has been
\* allocated by the time a command of the request is built.
C16_RequestBuffers ==
    LET b == rd.request.buffer
        count == rd.request.count
        sum[i \in 0..Len(b)] == IF i = 0 THEN 0 ELSE sum[i - 1] + b[i].data_size
    IN rd.req > 0 =>
         /\ Len(b) = (count + 15) \div 16
         /\ \A i \in DOMAIN b : b[i].data_size <= 8192
         /\ \A i \in DOMAIN b : i < Len(b) => b[i].data_size = 8192
         /\ sum[Len(b)] = count * 512
         /\ \A k \in DOMAIN issue_log :
              issue_log[k].req = rd.req =>
                 /\ next_frame = FirstFrame + Len(b)
                 /\ \A e \in DOMAIN issue_log[k].prdt :
                      \E i \in DOMAIN b : issue_log[k].prdt[e].dba = b[i].start

C16_Witness ==
    /\ rd.request.count = 145
    /\ Len(rd.request.buffer) = 10
    /\ rd.request.buffer[10].data_size = 512
    /\ \E k \in DOMAIN issue_log : issue_log[k].req = rd.req /\ issue_log[k].count = 17

\* C14: every command built, for count sectors with 1 <= count <= 128, has
\* PRDT length ceil(count / 16) in its header and exactly that many entries;
\* entry j carries the physical base of the j-th buffer of the command and
\* that buffer's byte count minus one, only the last entry asks for an
\* interrupt on completion, and the byte counts plus one add up to
\* count * 512.
C14_PrdtOfCommand ==
    \A k \in DOMAIN issue_log :
        LET c == issue_log[k]
            b == rd.request.buffer
            sum[j \in 0..Len(c.prdt)] ==
                IF j = 0 THEN 0 ELSE sum[j - 1] + c.prdt[j].dbc + 1
        IN c.req = rd.req =>
             /\ c.count >= 1 /\ c.count <= 128
             /\ c.prdtl = (c.count + 15) \div 16
             /\ Len(c.prdt) = c.prdtl
             /\ \A j \in DOMAIN c.prdt :
                  /\ c.first_buf + j \in DOMAIN b
                  /\ c.prdt[j].dba = b[c.first_buf + j].start
                  /\ c.prdt[j].dbc = b[c.first_buf + j].data_size - 1
                  /\ c.prdt[j].ioc = (j = c.prdtl)
             /\ sum[Len(c.prdt)] = c.count * 512

C14_Witness ==
    /\ Len(issue_log) = 2
    /\ issue_log[1].count = 128 /\ issue_log[1].prdtl = 8
    /\ issue_log[2].count = 17 /\ issue_log[2].prdtl = 2
    /\ issue_log[2].prdt[2].dbc = 511 /\ issue_log[2].prdt[2].ioc
    /\ ~issue_log[2].prdt[1].ioc

C13_ReadResult ==
    (rd.pc = "idle" /\ rd.req > 0 /\ rd.request.count > 0) =>
        IF rd.transferred = 0
        THEN rd.ret = "None"
        ELSE rd.ret = "Some" /\ rd.result = rd.transferred

\* C15: the first read on a freshly started port, of sector 0 into a
\* buffer of 512 bytes, has, once it has returned, issued exactly one
\* command, with PRDT length 1 and byte count 511, the device had completed
\* that command when the read returned, and the 512 bytes copied to the
\* caller are the 512 bytes the device wrote.
C15_FirstSectorRead ==
    LET mine == SelectSeq(issue_log, LAMBDA c : c.req = 1) IN
    (/\ rd.pc = "idle" /\ rd.req = 1
     /\ rd.request.sector = 0 /\ rd.len = 512
     /\ Len(issue_log) >= 1 /\ issue_log[1].slot = 0) =>
        /\ Len(mine) = 1
        /\ mine[1].prdtl = 1
        /\ Len(mine[1].prdt) = 1
        /\ mine[1].prdt[1].dbc = 511
        /\ rd.ret = "Some"
        /\ rd.copy = <<[buf |-> 0, offset |-> 0, count |-> 512]>>
        /\ rd.transferred = 512

\* C20: every buffer pmm_alloc has handed to a request has exactly one
\* mapped page for the 4 KiB ordering and exactly two consecutive pages
\* for the 8 KiB ordering, starting at the physical base it returned, and
\* has been zero-filled over exactly the size of its ordering (4096 or
\* 8192 bytes).
C20_PmmAllocRegion ==
    \A i \in DOMAIN rd.request.buffer :
        LET b == rd.request.buffer[i] IN
        /\ b.order = "Size4KiB" => b.pages = {b.start} /\ b.fill = 4096
        /\ b.order = "Size8KiB" => b.pages = {b.start, b.start + 4096} /\ b.fill = 8192

(***************************************************************************)
(* Properties of the AHCI controller (checked under HbaSpec).              *)
(***************************************************************************)

C18_DetectionDecode ==
    \A i \in hba.probed :
        LET det == hba.seen[i].lo % 16 IN
        hba.dd[i] # "uncalled" =>
            hba.dd[i] = CASE det = 0 -> "None"
                          [] det = 1 -> "PresentNotE"
                          [] det = 3 -> "PresentAndE"
                          [] det = 4 -> "Offline"
                          [] OTHER -> "panic"

C18_Witness ==
    \E i \in hba.probed :
        /\ hba.seen[i].hi # 0
        /\ (hba.seen[i].lo \div 16) % 16 = 15
        /\ hba.seen[i].lo % 16 = 11
        /\ hba.dd[i] = "panic"
        /\ cpu = "panicked"

(***************************************************************************)
(* Properties of the exception handlers (checked under SchedSpec).         *)
(***************************************************************************)

\* C19: a fault taken at kernel privilege halts the system; a fault taken
\* at a user privilege kills exactly the table entry at the current
\* schedule index, with SIGFPE for divide error and bound range, SIGILL
\* for invalid opcode, SIGSYS for device not available, SIGBUS for segment
\* not present, SIGSEGV for stack segment and SIGABRT for general
\* protection, and does not halt the system.
C19_FaultPolicy ==
    fault.kind \in FaultKinds =>
        IF fault.ring = 0
        THEN fault.halted
        ELSE /\ ~fault.halted
             /\ fault.killed = {fault.idx}
             /\ fault.idx \in DOMAIN PTABLE
             /\ fault.kind = "divide_error" => fault.signal = "SIGFPE"
             /\ fault.kind = "bound_range_exceeded" => fault.signal = "SIGFPE"
             /\ fault.kind = "invalid_opcode" => fault.signal = "SIGILL"
             /\ fault.kind = "device_not_available" => fault.signal = "SIGSYS"
             /\ fault.kind = "segment_not_present" => fault.signal = "SIGBUS"
             /\ fault.kind = "stack_segment_fault" => fault.signal = "SIGSEGV"
             /\ fault.kind = "general_protection_fault" => fault.signal = "SIGABRT"

\* C21: the port register block of the driver is 0x80 bytes, so that the
\* block of every port start_hba has addressed lies at HBA base + 0x100 +
\* i * 0x80; the SATA status register is 32 bits wide; and every register
\* of the driver's block lies at the byte offset of the corresponding field
\* of the packed reference layout.
C21_PortLayout ==
    LET same == {<<"clb", "cli_base">>, <<"fb", "fis_base">>,
                 <<"is", "interrupt_status">>, <<"ie", "interrupt_enable">>,
                 <<"cmd", "command">>, <<"tfd", "task_file_data">>,
                 <<"sig", "signature">>, <<"ssts", "sata_status">>,
                 <<"sctl", "sata_ctrl">>, <<"serr", "sata_err">>,
                 <<"sact", "sata_active">>, <<"ci", "cmd_issue">>,
                 <<"sntf", "notification">>, <<"fbs", "fis_switch">>,
                 <<"vendor", "vendor">>}
    IN /\ \A i \in hba.probed : hba.addr[i] = 256 + i * 128
       /\ hba.probed # {} =>
            /\ SizeOf(DriverPortFields, FALSE) = 128
            /\ FieldSize(DriverPortFields, "ssts") = 4
            /\ \A p \in same :
                 OffsetOf(DriverPortFields, FALSE, p[1]) =
                    OffsetOf(ReferencePortFields, TRUE, p[2])

(***************************************************************************)
(* Properties of the bitmap (checked under BitmapSpec).                    *)
(***************************************************************************)

\* C22: what find_first_unset returned is Some(i) for the least index i
\* whose bit is unset, in whichever block it lies, and None when no bit of
\* the bitmap is unset.
C22_FirstUnset ==
    LET unset == {i \in 0..(Len(bitmap) * BLOCK_BITS - 1) :
                     (i % BLOCK_BITS) \notin bitmap[(i \div BLOCK_BITS) + 1]}
    IN found.called =>
         IF unset = {}
         THEN ~found.some
         ELSE /\ found.some
              /\ found.value \in unset
              /\ \A i \in unset : found.value <= i

(***************************************************************************)
(* Further properties of the preemption driver (checked under SchedSpec).  *)
(***************************************************************************)

\* C23: every invocation of task_sched sends exactly one inter-processor
\* interrupt, to the id that follows the current one in the ring of
\* local-APIC ids (the first id counts as current on the first
\* invocation), and on a vector whose entry of the interrupt table is
\* task_sched, so that the next core runs the handler.
C23_SelfPerpetuating ==
    [][invocations' = invocations + 1 =>
          LET cur == IF invocations = 0 THEN lapic_ids[1] ELSE ACTIVE_LAPIC_ID
              pos == CHOOSE i \in 1..Len(lapic_ids) : lapic_ids[i] = cur
          IN /\ Len(tick'.ipis) = 1
             /\ tick'.ipis[1].dest = CycleNth(lapic_ids, pos)
             /\ IDT[tick'.ipis[1].vector] = "task_sched"]_vars

(***************************************************************************)
(* Properties of run_command (checked under AhciSpec).                     *)
(***************************************************************************)

\* C24: a bit of the command-issue register is set only in the step in
\* which run_command leaves its busy loop having found the port not busy,
\* and when run_command gives the command up after 100 busy spins the bit
\* of its slot is not set.
C24_IssueAfterBusyWait ==
    [][/\ (\E s \in Slots : s \notin ci /\ s \in ci') =>
            (rd.pc = "busy" /\ rd'.pc = "wait")
       /\ (rd.pc = "busy" /\ rd'.pc = "sched") => rd.slot \notin ci']_vars

\* C25: whatever the slot, run_command returns after issuing only when the
\* slot's bit of the command-issue register is clear or the task-file-error
\* status is set.
C25_WaitForCompletion ==
    [][(rd.pc \in {"busy", "wait"} /\ rd'.pc = "sched") =>
          (rd.slot \notin ci \/ is_tfes)]_vars

(***************************************************************************)
(* Property of the busy check (checked under TfdSpec).                     *)
(***************************************************************************)

\* C26: on a task-file-data value the busy check finds the port busy
\* exactly when the busy bit (bit 7) or the data-request bit (bit 3) of the
\* value is set, whatever its other bits are.
C26_BusyBits ==
    (busy_obs.read /\ busy_obs.v1 = busy_obs.v2) =>
        (busy_obs.busy <=>
            ((busy_obs.v1 \div 128) % 2 = 1 \/ (busy_obs.v1 \div 8) % 2 = 1))

(***************************************************************************)
(* Property of the command header (checked under HdrSpec).                 *)
(***************************************************************************)

\* C27: in the flags word run_command leaves in the command header the
\* write bit is set exactly for a write command, the prefetchable and
\* clear-busy-on-R_OK bits are set, and bits 0..=4 hold the length of the
\* host-to-device register FIS in dwords (5).
C27_HeaderFlags ==
    header.written =>
        /\ HasFlag(header.flags, FlagW) <=> header.command \in {"WriteDma", "WriteDmaExt"}
        /\ HasFlag(header.flags, FlagP)
        /\ HasFlag(header.flags, FlagC)
        /\ header.flags % 32 = CommandFisDwords

(***************************************************************************)
(* Properties of the AHCI interrupt handler (checked under IrqSpec).       *)
(***************************************************************************)

\* C28: the AHCI interrupt handler never waits for a lock that the code it
\* interrupted on the same core holds: neither for the driver lock while
\* start_driver holds it for writing during the test read, nor for a port's
\* inner lock while read holds it in run_request; so it always runs on to
\* its end-of-interrupt.
C28_HandlerNeverBlocked ==
    cpu = "irq" =>
        /\ ahci_irq.pc \in {"read_is", "write_is", "lock"} => ~DriverLockedByMain
        /\ ahci_irq.pc \in {"port_read", "port_write"} => ~PortLockedByMain(ahci_irq.i)

C30_PageFault ==
    fault.kind = "page_fault" =>
        /\ fault.code = {} =>
              fault.mapped /\ ~fault.halted /\ fault.killed = {}
        /\ (fault.code # {} /\ fault.ring # 0) =>
              /\ ~fault.halted
              /\ fault.killed = {fault.idx}
              /\ fault.signal = "SIGSEGV"
        /\ (fault.code # {} /\ fault.ring = 0) => fault.halted

(***************************************************************************)
(* Property of init_all_available_apics (checked under ApicSpec).          *)
(***************************************************************************)

\* C31: every redirection entry programmed on an IO-APIC is fixed,
\* level-triggered, active-low and destined to the bootstrap local APIC
\* and carries a vector in 32..=254, never one below 32; once an IO-APIC
\* is done its entries carry exactly the vectors 32..=254; and interrupts
\* are enabled only after every IO-APIC is done.
C31_IoApicVectors ==
    /\ \A k \in 1..apic.n : \A e \in 1..Len(apic.table[k]) :
          LET entry == apic.table[k][e] IN
          /\ entry.mode = "Fixed"
          /\ entry.flags = {"LEVEL_TRIGGERED", "LOW_ACTIVE"}
          /\ entry.dest = apic.id
          /\ entry.vector \in 32..254
    /\ \A k \in 1..apic.n : k < apic.k =>
          {apic.table[k][e].vector : e \in 1..Len(apic.table[k])} = 32..254
    /\ apic.interrupts =>
          \A k \in 1..apic.n : Len(apic.table[k]) = IoApicPasses

(***************************************************************************)
(* Property of HbaPort::start (checked under PstartSpec).                  *)
(***************************************************************************)

C33_CoresAgree ==
    LET len == TableLen(PTABLE)
        inside == {c \in SmpCores : cores[c].pc \notin {"idle", "panicked", "spinning"}}
        running == {c \in SmpCores : cores[c].pc = "running"}
    IN
    /\ len > 0 => PTABLE_IDX \in 0..(len - 1)
    /\ (len > 0 /\ inside = {}) =>
          PTABLE_IDX = (cores[1].ticks + cores[2].ticks) % len
    /\ Cardinality(running) <= 1
    /\ \A c \in running : PTABLE[cores[c].k] = "Runnable"
    /\ cpu # "panicked"

(***************************************************************************)
(* Allocate-then-register steps (checked under IdtSpec).                   *)
(***************************************************************************)

\* The vectors of the architecture-reserved exceptions and of the fixed
\* assignments of the template: task_sched, lapic_err, timer, spurious.
FixedVectors == (0..31) \cup {132, 49, 254, 255}

\* C34: a register_handler(v, h) that directly follows the irqalloc that
\* returned v binds a vector that was missing until then, so one that no
\* earlier step has bound; the vector is none of 0..=31, 132, 49, 254 and
\* 255, and the entry of every other vector, the ones registered earlier
\* included, is left as it was.
C34_AllocRegisterFrame ==
    [][(last_op = "irqalloc" /\ last_op' = "register" /\ allocs = <<last_irq>>) =>
          /\ IDT[last_irq] = Missing
          /\ IDT'[last_irq] \in DynHandlers
          /\ last_irq \notin FixedVectors
          /\ \A v \in Vectors \ {last_irq} : IDT'[v] = IDT[v]]_vars

C34_Witness ==
    /\ last_op = "register"
    /\ allocs = <<>>
    /\ \E u, v \in AllocRange :
          /\ u # v
          /\ IDT[u] \in DynHandlers
          /\ IDT[v] \in DynHandlers
    /\ \A v \in FixedVectors : IDT[v] = IdtTemplate(<<48, 49, 50, 51>>)[v]
    /\ IDT[49] # Missing

(***************************************************************************)
(* The active local-APIC id (checked under SchedSpec).                     *)
(***************************************************************************)

\* C35: with the discovered id sequence fixed, ACTIVE_LAPIC_ID is always 0
\* (not yet seeded) or one of the discovered ids, so lapic_iter.any(..)
\* always finds the active id: no invocation of task_sched hangs in the
\* search over the cycled sequence, and none takes the unreachable!()
\* branch.
C35_ActiveIdKnown ==
    /\ ACTIVE_LAPIC_ID = 0 \/ \E i \in 1..Len(lapic_ids) : lapic_ids[i] = ACTIVE_LAPIC_ID
    /\ LapicPart(ACTIVE_LAPIC_ID, lapic_ids).outcome = "ok"
    /\ cpu # "spinning"
    /\ tick.done # "spin"

C35_Witness ==
    /\ Len(lapic_ids) = 3
    /\ \A i \in 1..3 : lapic_ids[i] # 0
    /\ ACTIVE_LAPIC_ID = lapic_ids[3]
    /\ invocations = 3
    /\ tick.done = "eoi"

(***************************************************************************)
(* Regions handed out by pmm_alloc (checked under DmaSpec).                *)
(***************************************************************************)

\* C36: the regions handed out by distinct pmm_alloc calls, 4096 bytes
\* from the returned base for the 4 KiB ordering and 8192 bytes for the
\* 8 KiB ordering, are pairwise disjoint, also when the frames the frame
\* allocator returned are adjacent.
C36_RegionsDisjoint ==
    \A i, j \in DOMAIN rd.request.buffer :
        LET a == rd.request.buffer[i]
            b == rd.request.buffer[j]
        IN i # j =>
             \/ a.start + OrderSize(a.order) <= b.start
             \/ b.start + OrderSize(b.order) <= a.start

(***************************************************************************)
(* Opcode and frame of every issued command (checked under DmaSpec).       *)
(***************************************************************************)

\* C37: every issued command carries READ DMA exactly when the LBA placed
\* in its FIS, the request's sector plus the command's offset, is at most
\* 0x0FFF_FFFF, and READ DMA EXT when it is larger; also for the later
\* commands of a request that starts below the limit.
C37_OpcodeMatchesLba ==
    \A k \in DOMAIN issue_log :
        LET c == issue_log[k] IN
        /\ c.sector <= 268435455 => c.opcode = "ReadDma"
        /\ c.sector > 268435455 => c.opcode = "ReadDmaExt"

\* C38: every issued command has a sector count of 1..=128 and at most 8
\* PRDT entries, and everything it writes into the command-table buffer
\* lies inside the 256 bytes of its own slot: the FIS in the first 128
\* bytes, the PRDT entries in the 8 * 16 bytes behind them. No command
\* writes into the 256 bytes of another slot.
C38_CommandInOwnSlice ==
    \A k \in DOMAIN issue_log :
        LET c == issue_log[k]
            w == CmdTblWrites(CtbOf(0, c.slot), c.prdt)
        IN /\ c.count >= 1 /\ c.count <= 128
           /\ c.prdtl <= 8 /\ Len(c.prdt) <= 8
           /\ \A r \in w : 256 * c.slot <= r.lo /\ r.hi <= 256 * c.slot + 128 + 8 * 16
           /\ \A r \in w : r.lo >= 256 * c.slot + 128 \/ r.hi <= 256 * c.slot + 128
           /\ \A s \in Slots \ {c.slot} :
                \A r \in w : r.hi <= 256 * s \/ r.lo >= 256 * (s + 1)

C38_Witness ==
    /\ Len(issue_log) = 3
    /\ issue_log[1].slot = 0 /\ Len(issue_log[1].prdt) = 8
    /\ issue_log[2].slot = 1 /\ Len(issue_log[2].prdt) = 8
    /\ issue_log[3].slot = 2 /\ issue_log[3].count = 8
    /\ [lo |-> 496, hi |-> 512] \in CmdTblWrites(CtbOf(0, 1), issue_log[2].prdt)

(***************************************************************************)
(* The free-slot counter of a port (checked under AhciSpec).               *)
(***************************************************************************)

\* C39: whatever run_request calls have been made, those that returned
\* early because no slot was free included, free_cmds is the number of
\* empty entries of the 32-entry slot table, and it lies in 0..=32.
C39_FreeCmdsCount ==
    /\ free_cmds = Cardinality({s \in Slots : cmds[s] = NoCmd})
    /\ free_cmds >= 0
    /\ free_cmds <= 32

C39_Witness ==
    /\ free_cmds = 0
    /\ FindSlot(cmds) = {}
    /\ rd.pc = "outer"
    /\ rd.offset < rd.request.count
    /\ Len(issue_log) = 2

====
